---- MODULE Spec2Model ----
(***************************************************************************)
(* A model of the test execution and assertion core of ananke:            *)
(*   runner/test.ts   runTest       (hooks, turn loop, fail-fast, verdict) *)
(*   runner/turn.ts   collectTurnData / handleEvent (event reconstruction) *)
(*   runner/merge.ts  mergeAssertBlocks (target -> test -> turn)           *)
(*   assertions/*.ts  the tool, timing and text evaluators                 *)
(*                                                                         *)
(* Optional values (a field that may be undefined) are sequences of       *)
(* length 0 (undefined) or 1 (the value).  The timing value `false` is     *)
(* the number Disabled.  Strings that are built by concatenation (the      *)
(* transcript, an argument buffer) are sequences of the pieces.            *)
(***************************************************************************)
EXTENDS Integers, Sequences, FiniteSets, TLC

VARIABLES
    config,            \* the inputs of runTest: target/test/turn assert blocks, hooks
    pc,                \* position of runTest / collectTurnData
    now,               \* the local clock (Date.now())
    startTs,           \* runTest: const startTs = Date.now()
    i,                 \* runTest: index of the turn loop
    turns,             \* runTest: TurnData[] of the completed turns
    failures,          \* runTest: string[] failures
    result,            \* the TestResult returned by runTest (<<>> until it returns)
    toolCalls,         \* collectTurnData: ToolCall[]
    pendingToolCalls,  \* collectTurnData: Map<toolCallId, PendingToolCall>
    assistantText,     \* collectTurnData: concatenated text deltas
    turnStartTs,       \* collectTurnData: startTs (number | null)
    turnEndTs,         \* collectTurnData: endTs (number | null)
    turnData,          \* the TurnData returned by collectTurnData (<<>> until then)
    thrown,            \* the error raised by handleEvent (<<>> if none)
    consumed,          \* number of events the current collectTurnData has consumed
    lastEvent,         \* history: the event handled last in the current turn
    events,            \* history: all of them (recorded by the reconstruction model)
    log,               \* history: the steps of runTest, in order
    call,              \* the arguments of a function evaluated on its own (<<>> if none)
    ret                \* its return value (<<>> until it returns)

vars == <<config, pc, now, startTs, i, turns, failures, result, toolCalls,
          pendingToolCalls, assistantText, turnStartTs, turnEndTs, turnData,
          thrown, consumed, lastEvent, events, log, call, ret>>

runVars == <<config, startTs, i, turns, failures, result, log>>
streamVars == <<toolCalls, pendingToolCalls, assistantText, turnStartTs, turnEndTs>>

----------------------------------------------------------------------------
(* Bounds of the model *)

MaxTurns == 2          \* number of turns of a test file
MaxEvents == 3         \* events of one turn's stream in the runTest model
MaxTick == 1           \* the clock advances by 1..MaxTick between two arrivals
MaxTraceEvents == 4    \* events of the stream in the collectTurnData model
MaxTs == 1             \* arrival timestamps 0..MaxTs in the collectTurnData model
MaxToolEvents == 5     \* events of the stream in the argument model
MaxTime == 2           \* timestamps and timing bounds 0..MaxTime in the timing model
MaxCalls == 2          \* tool calls of a TimingContext in the timing model
MaxWindowEvents == 3   \* events of the stream in the idle-window model
MaxToolCalls == 2      \* tool calls of a call list in the tools model

ToolNames == {"a", "b"}
ToolCallIds == {"t1", "t2"}

\* timing value `false` (types/test.ts TimingAssertSchema: z.literal(false))
Disabled == -1

----------------------------------------------------------------------------
(* Generic helpers *)

Has(o) == o # <<>>
Get(o) == o[1]
Some(v) == <<v>>
None == <<>>

RECURSIVE ConcatAll(_)
ConcatAll(ss) == IF ss = <<>> THEN <<>> ELSE Head(ss) \o ConcatAll(Tail(ss))

\* toolCalls.findIndex((tc) => tc.name === name): 0-based, -1 when absent
FindIndex(s, name) ==
    IF \E k \in 1..Len(s) : s[k].name = name
    THEN (CHOOSE k \in 1..Len(s) :
              s[k].name = name /\ \A j \in 1..(k-1) : s[j].name # name) - 1
    ELSE -1

----------------------------------------------------------------------------
(* runner/merge.ts *)

\* `!value` for a string | string[] | undefined: undefined and the empty
\* string are falsy, every array is truthy
Falsy(value) ==
    ~Has(value) \/ (Get(value).single /\ Get(value).patterns = << <<>> >>)

\* normalizeToArray(value: string | string[] | undefined): a text constraint is
\* [single |-> TRUE, patterns |-> <<p>>] for a string, [single |-> FALSE,
\* patterns |-> list] for an array
normalizeToArray(value) ==
    IF Falsy(value) THEN <<>> ELSE Get(value).patterns

\* the levels that are defined and carry field f of category cat
LevelField(level, cat, f) ==
    IF Has(level) /\ Has(Get(level)[cat]) THEN Get(Get(level)[cat])[f] ELSE None

RECURSIVE LastSet(_)
\* the value a scalar keeps after `for (const level of levels) if (v !== undefined) merged = v`
LastSet(vals) ==
    IF vals = <<>> THEN None
    ELSE IF Has(vals[Len(vals)]) THEN vals[Len(vals)]
    ELSE LastSet(SubSeq(vals, 1, Len(vals) - 1))

\* the timing block of the last scope that has one
LastTimingBlock(target, test, turn) ==
    IF Has(turn) /\ Has(Get(turn).timing) THEN Get(turn).timing
    ELSE IF Has(test) /\ Has(Get(test).timing) THEN Get(test).timing
    ELSE IF Has(target) /\ Has(Get(target).timing) THEN Get(target).timing
    ELSE None

mergeTimingAssert_PerBlock(target, test, turn) ==
    IF Has(LastTimingBlock(target, test, turn))
    THEN Get(LastTimingBlock(target, test, turn))
    ELSE [max_duration_ms |-> None, max_idle_ms |-> None]

mergeTimingAssert(target, test, turn) ==
    [ max_duration_ms |->
        LastSet(<<LevelField(target, "timing", "max_duration_ms"),
                  LevelField(test, "timing", "max_duration_ms"),
                  LevelField(turn, "timing", "max_duration_ms")>>),
      max_idle_ms |->
        LastSet(<<LevelField(target, "timing", "max_idle_ms"),
                  LevelField(test, "timing", "max_idle_ms"),
                  LevelField(turn, "timing", "max_idle_ms")>>) ]

\* `x.length > 0 ? x : undefined`
NonEmptyOrUndefined(list) == IF Len(list) > 0 THEN Some(list) ELSE None

MergedTextList(target, test, turn, f) ==
    normalizeToArray(LevelField(target, "text", f))
      \o normalizeToArray(LevelField(test, "text", f))
      \o normalizeToArray(LevelField(turn, "text", f))

\* a string[] as a text constraint
PatternList(list) == [single |-> FALSE, patterns |-> list]

\* `list.length > 0 ? list : undefined`
PatternsOrUndefined(list) == IF Len(list) > 0 THEN Some(PatternList(list)) ELSE None

mergeTextAssert(target, test, turn) ==
    [ must_match |-> PatternsOrUndefined(MergedTextList(target, test, turn, "must_match")),
      must_not_match |->
          PatternsOrUndefined(MergedTextList(target, test, turn, "must_not_match")) ]

\* `if (level?.f) list.push(...level.f)`
Pushed(level, f) ==
    IF Has(LevelField(level, "tools", f)) THEN Get(LevelField(level, "tools", f)) ELSE <<>>

MergedToolsList(target, test, turn, f) ==
    Pushed(target, f) \o Pushed(test, f) \o Pushed(turn, f)

mergeToolsAssert(target, test, turn) ==
    [ forbid |-> NonEmptyOrUndefined(MergedToolsList(target, test, turn, "forbid")),
      require |-> NonEmptyOrUndefined(MergedToolsList(target, test, turn, "require")),
      forbid_calls |->
          NonEmptyOrUndefined(MergedToolsList(target, test, turn, "forbid_calls")) ]

mergeAssertBlocks(target, test, turn) ==
    [ tools |-> mergeToolsAssert(target, test, turn),
      timing |-> mergeTimingAssert(target, test, turn),
      text |-> mergeTextAssert(target, test, turn) ]

----------------------------------------------------------------------------
(* assertions/tools.ts.  An AssertionResult is a record                    *)
(*   [assertion, subject, other, pattern, expected, actual, turn]          *)
(* assertion: which check failed; subject/other: the tool names of its     *)
(* message; pattern: the pattern of its message; expected/actual: the      *)
(* numbers of its message (0 where the message carries none); turn: the    *)
(* "[Turn k]" prefix formatFailure adds (0: no prefix).                    *)

FailureWith(assertion, subject, other, pattern, expected, actual) ==
    [ assertion |-> assertion, subject |-> subject, other |-> other,
      pattern |-> pattern, expected |-> expected, actual |-> actual, turn |-> 0 ]

Failure(assertion, subject, other, expected, actual) ==
    FailureWith(assertion, subject, other, <<>>, expected, actual)

NamedCalls(calls, name) == SelectSeq(calls, LAMBDA tc : tc.name = name)

assertForbiddenTools_PerCall(calls, forbidden) ==
    ConcatAll([ k \in 1..Len(forbidden) |->
        [ j \in 1..Len(NamedCalls(calls, forbidden[k])) |->
            Failure("Tool must not be called", forbidden[k], "", 0, 0) ] ])

assertForbiddenTools(calls, forbidden) ==
    ConcatAll([ k \in 1..Len(forbidden) |->
        IF \E j \in 1..Len(calls) : calls[j].name = forbidden[k]
        THEN << Failure("Tool must not be called", forbidden[k], "", 0, 0) >>
        ELSE <<>> ])

\* assertCount: null is <<>>, a failure is a one-element list
assertCount(toolName, count, constraint) ==
    IF Has(constraint.exact)
    THEN IF count # Get(constraint.exact)
         THEN << Failure("Tool count exactly", toolName, "", Get(constraint.exact), count) >>
         ELSE <<>>
    ELSE IF Has(constraint.min) /\ count < Get(constraint.min)
         THEN << Failure("Tool count at least", toolName, "", Get(constraint.min), count) >>
         ELSE IF Has(constraint.max) /\ count > Get(constraint.max)
              THEN << Failure("Tool count at most", toolName, "", Get(constraint.max), count) >>
              ELSE <<>>

assertOrdering_LastOccurrence(calls, toolName, afterTool) ==
    LET afterIndex == FindIndex(calls, afterTool)
        lastTool == IF \E k \in 1..Len(calls) : calls[k].name = toolName
                    THEN (CHOOSE k \in 1..Len(calls) :
                             calls[k].name = toolName
                             /\ \A j \in (k + 1)..Len(calls) : calls[j].name # toolName) - 1
                    ELSE -1
    IN  IF afterIndex = -1
        THEN << Failure("Tool must be called after: not called", toolName, afterTool, 0, 0) >>
        ELSE IF lastTool < afterIndex
             THEN << Failure("Tool must be called after: called before",
                             toolName, afterTool, 0, 0) >>
             ELSE <<>>

assertOrdering(calls, toolName, afterTool) ==
    LET afterIndex == FindIndex(calls, afterTool)
        toolIndex == FindIndex(calls, toolName)
    IN  IF afterIndex = -1
        THEN << Failure("Tool must be called after: not called", toolName, afterTool, 0, 0) >>
        ELSE IF toolIndex < afterIndex
             THEN << Failure("Tool must be called after: called before",
                             toolName, afterTool, 0, 0) >>
             ELSE <<>>

\* new RegExp(pattern).test(str): the patterns of this model are literal
\* ones, found anywhere in the string
RegExpTest(pattern, str) ==
    \E k \in 0..(Len(str) - Len(pattern)) : SubSeq(str, k + 1, k + Len(pattern)) = pattern

\* `typeof value === 'string' ? value : JSON.stringify(value)`: a value carries
\* its text, the string itself or its JSON text
Stringify(value) == value.text

\* the text RegExp.test sees for a value whose JSON.stringify is undefined
UndefinedText == <<"u", "n", "d", "e", "f", "i", "n", "e", "d">>

\* property names every object parsed from JSON inherits from Object.prototype
ObjectPrototype == {"toString"}

\* `current[part]` on an object: an own property, else an inherited one (a
\* function, which JSON.stringify turns into undefined), else undefined
GetProperty(obj, part) ==
    IF part \in DOMAIN obj.fields THEN Some(obj.fields[part])
    ELSE IF part \in ObjectPrototype
         THEN Some([type |-> "function", text |-> UndefinedText, fields |-> <<>>])
         ELSE None

\* getNestedValue(obj, path): path is the list of the parts of the dot path;
\* <<>> (undefined) when a part is missing or is looked up in null or in a
\* non-object
RECURSIVE getNestedValue(_, _)
getNestedValue(obj, path) ==
    IF path = <<>> THEN Some(obj)
    ELSE IF obj.type # "object" THEN None
    ELSE IF ~Has(GetProperty(obj, Head(path))) THEN None
    ELSE getNestedValue(Get(GetProperty(obj, Head(path))), Tail(path))

\* does the call satisfy the entry <<path, pattern>> of an args_match
ArgMatches(tc, entry) ==
    LET value == getNestedValue(tc.args, entry[1])
    IN  Has(value) /\ RegExpTest(entry[2], Stringify(Get(value)))

\* assertArgsMatch: args_match is the list of its entries <<path, pattern>>
assertArgsMatch(toolName, tc, argsMatch) ==
    ConcatAll([ k \in 1..Len(argsMatch) |->
        IF ~Has(getNestedValue(tc.args, argsMatch[k][1]))
        THEN << FailureWith("Tool arg must match: argument not found", toolName, "",
                            argsMatch[k][2], 0, 0) >>
        ELSE IF ~ArgMatches(tc, argsMatch[k])
             THEN << FailureWith("Tool arg must match", toolName, "",
                                 argsMatch[k][2], 0, 0) >>
             ELSE <<>> ])

checkArgsMatch(tc, argsMatch) ==
    \A k \in 1..Len(argsMatch) : ArgMatches(tc, argsMatch[k])

\* `if (s)` for an optional string: undefined and "" are falsy
TruthyString(s) == Has(s) /\ Len(Get(s)) > 0

\* `if (req.after)` for an optional tool name
TruthyName(n) == Has(n) /\ Get(n) # ""

RequiredToolResults_OrderingAlways(calls, req) ==
    LET matchingCalls == NamedCalls(calls, req.name)
    IN  (IF Len(matchingCalls) = 0
         THEN << Failure("Tool must be called", req.name, "", 1, 0) >>
         ELSE <<>>)
        \o
        (IF TruthyName(req.after)
         THEN assertOrdering(calls, req.name, Get(req.after))
         ELSE <<>>)

\* one entry of the `for (const req of required)` loop
RequiredToolResults(calls, req) ==
    LET matchingCalls == NamedCalls(calls, req.name)
    IN  IF Len(matchingCalls) = 0
        THEN << Failure("Tool must be called", req.name, "", 1, 0) >>
        ELSE (IF Has(req.count)
              THEN assertCount(req.name, Len(matchingCalls), Get(req.count))
              ELSE <<>>)
             \o
             (IF Has(req.args_match)
              THEN ConcatAll([ k \in 1..Len(matchingCalls) |->
                       assertArgsMatch(req.name, matchingCalls[k], Get(req.args_match)) ])
              ELSE <<>>)
             \o
             (IF TruthyString(req.result_match)
                   /\ ~\E k \in 1..Len(matchingCalls) :
                          RegExpTest(Get(req.result_match), Stringify(matchingCalls[k].result))
              THEN << FailureWith("Tool result must match", req.name, "",
                                  Get(req.result_match), 0, 0) >>
              ELSE <<>>)
             \o
             (IF TruthyString(req.result_not_match)
              THEN ConcatAll([ k \in 1..Len(matchingCalls) |->
                       IF RegExpTest(Get(req.result_not_match),
                                     Stringify(matchingCalls[k].result))
                       THEN << FailureWith("Tool result must not match", req.name, "",
                                           Get(req.result_not_match), 0, 0) >>
                       ELSE <<>> ])
              ELSE <<>>)
             \o
             (IF TruthyName(req.after)
              THEN assertOrdering(calls, req.name, Get(req.after))
              ELSE <<>>)

assertRequiredTools(calls, required) ==
    ConcatAll([ k \in 1..Len(required) |-> RequiredToolResults(calls, required[k]) ])

shouldForbid_AnyCondition(tc, forbid) ==
    \/ ~Has(forbid.args_match) /\ ~TruthyString(forbid.result_match)
    \/ Has(forbid.args_match) /\ checkArgsMatch(tc, Get(forbid.args_match))
    \/ TruthyString(forbid.result_match)
          /\ RegExpTest(Get(forbid.result_match), Stringify(tc.result))

\* shouldForbid after the two condition checks
shouldForbid(tc, forbid) ==
    /\ Has(forbid.args_match) => checkArgsMatch(tc, Get(forbid.args_match))
    /\ TruthyString(forbid.result_match) =>
          RegExpTest(Get(forbid.result_match), Stringify(tc.result))

assertForbiddenCalls(calls, forbidCalls) ==
    ConcatAll([ k \in 1..Len(forbidCalls) |->
        LET matchingCalls == NamedCalls(calls, forbidCalls[k].name)
        IN  ConcatAll([ j \in 1..Len(matchingCalls) |->
                IF shouldForbid(matchingCalls[j], forbidCalls[k])
                THEN << Failure("Tool call forbidden", forbidCalls[k].name, "", 0, 0) >>
                ELSE <<>> ]) ])

\* new RegExp(pattern) throws a SyntaxError for a pattern that is no regular
\* expression; of the characters of this model "(" makes one (an unterminated
\* group)
RegExpThrows(pattern) == \E k \in 1..Len(pattern) : pattern[k] = "("

\* assertArgsMatch raises: some entry whose value is found carries such a
\* pattern (an entry whose value is not found is skipped before the RegExp
\* is built)
assertArgsMatchThrows(tc, argsMatch) ==
    \E k \in 1..Len(argsMatch) :
        /\ Has(getNestedValue(tc.args, argsMatch[k][1]))
        /\ RegExpThrows(argsMatch[k][2])

\* checkArgsMatch raises: as above, unless an earlier entry returned false
checkArgsMatchThrows(tc, argsMatch) ==
    \E k \in 1..Len(argsMatch) :
        /\ \A j \in 1..(k - 1) :
              ~RegExpThrows(argsMatch[j][2]) /\ ArgMatches(tc, argsMatch[j])
        /\ Has(getNestedValue(tc.args, argsMatch[k][1]))
        /\ RegExpThrows(argsMatch[k][2])

\* assertRequiredTools raises: an entry whose tool was called builds a RegExp
\* from such a pattern
assertRequiredToolsThrows(calls, required) ==
    \E k \in 1..Len(required) :
        LET req == required[k]
            matchingCalls == NamedCalls(calls, req.name)
        IN  /\ Len(matchingCalls) > 0
            /\ \/ /\ Has(req.args_match)
                  /\ \E j \in 1..Len(matchingCalls) :
                        assertArgsMatchThrows(matchingCalls[j], Get(req.args_match))
               \/ TruthyString(req.result_match) /\ RegExpThrows(Get(req.result_match))
               \/ TruthyString(req.result_not_match)
                     /\ RegExpThrows(Get(req.result_not_match))

\* assertForbiddenCalls raises: for some call of the name, the args condition
\* raises, or it holds and the result condition builds such a RegExp
assertForbiddenCallsThrows(calls, forbidCalls) ==
    \E k \in 1..Len(forbidCalls) :
        LET forbid == forbidCalls[k]
            matchingCalls == NamedCalls(calls, forbid.name)
        IN  \E j \in 1..Len(matchingCalls) :
                \/ /\ Has(forbid.args_match)
                   /\ checkArgsMatchThrows(matchingCalls[j], Get(forbid.args_match))
                \/ /\ Has(forbid.args_match) =>
                         checkArgsMatch(matchingCalls[j], Get(forbid.args_match))
                   /\ TruthyString(forbid.result_match)
                   /\ RegExpThrows(Get(forbid.result_match))

\* assertForbiddenTools builds no RegExp
assertForbiddenToolsThrows(calls, forbidden) == FALSE

----------------------------------------------------------------------------
(* assertions/timing.ts *)

SortByTimestamp_Unsorted(calls) == calls

RECURSIVE SortByTimestamp(_)
\* [...toolCalls].sort((a, b) => a.timestamp - b.timestamp): a stable sort
SortByTimestamp(calls) ==
    IF calls = <<>> THEN <<>>
    ELSE LET rest == SortByTimestamp(SubSeq(calls, 1, Len(calls) - 1))
             x == calls[Len(calls)]
         IN  SelectSeq(rest, LAMBDA c : c.timestamp <= x.timestamp)
               \o <<x>>
               \o SelectSeq(rest, LAMBDA c : c.timestamp > x.timestamp)

IdleGap(from, to, duration) == [from |-> from, to |-> to, duration |-> duration]

computeIdleGaps_ClampsAtZero(context) ==
    LET sorted == SortByTimestamp(context.toolCalls)
        n == Len(sorted)
        Clamp(d) == IF d < 0 THEN 0 ELSE d
    IN  IF n = 0
        THEN << IdleGap("start", "end", Clamp(context.endTs - context.startTs)) >>
        ELSE << IdleGap("start", sorted[1].name,
                        Clamp(sorted[1].timestamp - context.startTs)) >>
             \o [ k \in 1..(n - 1) |->
                    IdleGap(sorted[k].name, sorted[k + 1].name,
                            sorted[k + 1].timestamp - sorted[k].timestamp) ]
             \o << IdleGap(sorted[n].name, "end", Clamp(context.endTs - sorted[n].timestamp)) >>

computeIdleGaps(context) ==
    LET sorted == SortByTimestamp(context.toolCalls)
        n == Len(sorted)
    IN  IF n = 0
        THEN << IdleGap("start", "end", context.endTs - context.startTs) >>
        ELSE << IdleGap("start", sorted[1].name, sorted[1].timestamp - context.startTs) >>
             \o [ k \in 1..(n - 1) |->
                    IdleGap(sorted[k].name, sorted[k + 1].name,
                            sorted[k + 1].timestamp - sorted[k].timestamp) ]
             \o << IdleGap(sorted[n].name, "end", context.endTs - sorted[n].timestamp) >>

Enforced_Truthy(c) == Has(c) /\ Get(c) # Disabled /\ Get(c) # 0

\* `c !== undefined && c !== false`
Enforced(c) == Has(c) /\ Get(c) # Disabled

\* the first element of a list, as a list
FirstOnly(list) == IF list = <<>> THEN <<>> ELSE <<Head(list)>>

assertTiming_StopsAtFirstGap(context, constraints) ==
    (IF Enforced(constraints.max_duration_ms)
        /\ context.endTs - context.startTs > Get(constraints.max_duration_ms)
     THEN << Failure("Duration constraint", "", "",
                     Get(constraints.max_duration_ms), context.endTs - context.startTs) >>
     ELSE <<>>)
    \o
    (IF Enforced(constraints.max_idle_ms)
     THEN LET gaps == computeIdleGaps(context)
          IN  FirstOnly(ConcatAll([ k \in 1..Len(gaps) |->
                  IF gaps[k].duration > Get(constraints.max_idle_ms)
                  THEN << Failure("Idle constraint", gaps[k].from, gaps[k].to,
                                  Get(constraints.max_idle_ms), gaps[k].duration) >>
                  ELSE <<>> ]))
     ELSE <<>>)

assertTiming(context, constraints) ==
    (IF Enforced(constraints.max_duration_ms)
        /\ context.endTs - context.startTs > Get(constraints.max_duration_ms)
     THEN << Failure("Duration constraint", "", "",
                     Get(constraints.max_duration_ms), context.endTs - context.startTs) >>
     ELSE <<>>)
    \o
    (IF Enforced(constraints.max_idle_ms)
     THEN LET gaps == computeIdleGaps(context)
          IN  ConcatAll([ k \in 1..Len(gaps) |->
                  IF gaps[k].duration > Get(constraints.max_idle_ms)
                  THEN << Failure("Idle constraint", gaps[k].from, gaps[k].to,
                                  Get(constraints.max_idle_ms), gaps[k].duration) >>
                  ELSE <<>> ])
     ELSE <<>>)

----------------------------------------------------------------------------
(* assertions/text.ts, assertions/utils.ts.  A string is the sequence of   *)
(* its characters; the patterns of this model are literal ones, which      *)
(* RegExp.test finds anywhere in the string.                               *)

\* the flags /body/flags may carry
FlagChars == {"g", "i", "m", "s", "u", "y"}

\* the position of the last "/" of the pattern, 0 when it has none
LastSlash(pattern) ==
    IF \E k \in 1..Len(pattern) : pattern[k] = "/"
    THEN CHOOSE k \in 1..Len(pattern) :
            pattern[k] = "/" /\ \A j \in (k + 1)..Len(pattern) : pattern[j] # "/"
    ELSE 0

\* parsePattern: pattern.match(/^\/(.+)\/([gimsuy]*)$/) gives the body and the
\* flags, any other pattern is the body of a regex without flags
parsePattern(pattern) ==
    LET last == LastSlash(pattern)
    IN  IF /\ Len(pattern) >= 3
           /\ pattern[1] = "/"
           /\ last >= 3
           /\ \A k \in (last + 1)..Len(pattern) : pattern[k] \in FlagChars
        THEN [body |-> SubSeq(pattern, 2, last - 1),
              flags |-> SubSeq(pattern, last + 1, Len(pattern))]
        ELSE [body |-> pattern, flags |-> <<>>]

\* case folding of the letters of the model
Fold(c) == IF c = "X" THEN "x" ELSE c

FoldAll(str) == [ k \in 1..Len(str) |-> Fold(str[k]) ]

\* new RegExp(body, flags).test(str): with the flag i letters match in either
\* case
RegExpTestFlags(body, flags, str) ==
    IF \E k \in 1..Len(flags) : flags[k] = "i"
    THEN RegExpTest(FoldAll(body), FoldAll(str))
    ELSE RegExpTest(body, str)

matchesPattern(str, pattern) ==
    RegExpTestFlags(parsePattern(pattern).body, parsePattern(pattern).flags, str)

assertText(text, constraints) ==
    LET mustMatch == normalizeToArray(constraints.must_match)
        mustNotMatch == normalizeToArray(constraints.must_not_match)
    IN  ConcatAll([ k \in 1..Len(mustMatch) |->
            IF ~matchesPattern(text, mustMatch[k])
            THEN << FailureWith("Text must match", "", "", mustMatch[k], 0, 0) >>
            ELSE <<>> ])
        \o
        ConcatAll([ k \in 1..Len(mustNotMatch) |->
            IF matchesPattern(text, mustNotMatch[k])
            THEN << FailureWith("Text must not match", "", "", mustNotMatch[k], 0, 0) >>
            ELSE <<>> ])

----------------------------------------------------------------------------
(* assertions/engine.ts.  The block given to the engine is a merged one:   *)
(* its three categories are always objects.                                *)

\* the checks shared by evaluateTurnAssertions and evaluateTestAssertions,
\* in the order the engine pushes their results
EvaluateOver(calls, start, end, text, assertions) ==
    (IF Has(assertions.tools.forbid)
     THEN assertForbiddenTools(calls, Get(assertions.tools.forbid)) ELSE <<>>)
    \o (IF Has(assertions.tools.require)
        THEN assertRequiredTools(calls, Get(assertions.tools.require)) ELSE <<>>)
    \o (IF Has(assertions.tools.forbid_calls)
        THEN assertForbiddenCalls(calls, Get(assertions.tools.forbid_calls)) ELSE <<>>)
    \o assertTiming([startTs |-> start, endTs |-> end, toolCalls |-> calls],
                    assertions.timing)
    \o assertText(text, assertions.text)

EvaluationResult(results) == [passed |-> results = <<>>, results |-> results]

evaluateTurnAssertions(data, assertions) ==
    EvaluationResult(EvaluateOver(data.toolCalls, data.startTs, data.endTs,
                                  data.assistantText, assertions))

RECURSIVE Join(_, _)
\* allAssistantTexts.join(sep)
Join(texts, sep) ==
    IF texts = <<>> THEN <<>>
    ELSE IF Len(texts) = 1 THEN texts[1]
    ELSE texts[1] \o sep \o Join(Tail(texts), sep)

evaluateTestAssertions(testData, assertions) ==
    EvaluationResult(EvaluateOver(testData.allToolCalls, testData.startTs, testData.endTs,
                                  Join(testData.allAssistantTexts, <<"\n">>), assertions))

----------------------------------------------------------------------------
(* runner/turn.ts: handleEvent and collectTurnData *)

\* JSON texts are sequences of characters over {"{", "}", "1", "x"}.  Of
\* these JSON.parse accepts "{}" (the empty object) and the numerals "1",
\* "11", ...; it raises a SyntaxError on every other text.

IsNumeral(text) == Len(text) > 0 /\ \A k \in 1..Len(text) : text[k] = "1"
JsonValid(text) == text = <<"{", "}">> \/ IsNumeral(text)

\* a JavaScript value: an object, a number or a string, with its text
JsValue(type, text) == [type |-> type, text |-> text, fields |-> <<>>]

\* an object with the given properties (a function from keys to values); its
\* JSON text is abridged to its braces
ObjectValue(fields) ==
    [ type |-> "object",
      text |-> IF DOMAIN fields = {} THEN <<"{", "}">> ELSE <<"{", ":", "}">>,
      fields |-> fields ]
EmptyObject == JsValue("object", <<"{", "}">>)

JsonParse(text) ==
    IF text = <<"{", "}">> THEN EmptyObject ELSE JsValue("number", text)

ParseArgs_KeepsRawText(argsBuffer) ==
    LET text == IF argsBuffer = <<>> THEN <<"{", "}">> ELSE argsBuffer
    IN  IF JsonValid(text) THEN JsonParse(text) ELSE JsValue("string", text)

\* let args = {}; try { args = JSON.parse(pending.argsBuffer || "{}") } catch {}
ParseArgs(argsBuffer) ==
    LET text == IF argsBuffer = <<>> THEN <<"{", "}">> ELSE argsBuffer
    IN  IF JsonValid(text) THEN JsonParse(text) ELSE EmptyObject

\* let result = event.result; try { result = JSON.parse(event.result) } catch {}
ParseResult(text) ==
    IF JsonValid(text) THEN JsonParse(text) ELSE JsValue("string", text)

\* a TimestampedEvent; the fields an event kind does not carry are empty
Event(type, id, name, text, ts) ==
    [type |-> type, toolCallId |-> id, toolCallName |-> name, text |-> text, ts |-> ts,
     messageId |-> ""]

\* a TEXT_MESSAGE_CONTENT event of the message messageId
TextMessageContent(messageId, delta, ts) ==
    [Event("TEXT_MESSAGE_CONTENT", "", "", delta, ts) EXCEPT !.messageId = messageId]

PendingToolCall(name, ts) == [name |-> name, argsBuffer |-> <<>>, startTs |-> ts]

\* Map.set / Map.delete on a function whose domain is the set of keys
MapSet(m, k, v) == [x \in (DOMAIN m) \cup {k} |-> IF x = k THEN v ELSE m[x]]
MapDelete(m, k) == [x \in (DOMAIN m) \ {k} |-> m[x]]
EmptyMap == [x \in {} |-> 0]

FinalizedToolCall_StartTimestamp(pending, event) ==
    [ name |-> pending.name,
      args |-> ParseArgs(pending.argsBuffer),
      result |-> ParseResult(event.text),
      timestamp |-> pending.startTs ]

\* the ToolCall pushed by the TOOL_CALL_RESULT case
FinalizedToolCall(pending, event) ==
    [ name |-> pending.name,
      args |-> ParseArgs(pending.argsBuffer),
      result |-> ParseResult(event.text),
      timestamp |-> event.ts ]

ToolCallsAfter_AtStart(event, calls, pendings) ==
    IF event.type = "TOOL_CALL_START"
    THEN Append(calls, [ name |-> event.toolCallName, args |-> EmptyObject,
                         result |-> JsValue("string", <<>>), timestamp |-> event.ts ])
    ELSE calls

\* toolCalls after handleEvent(event, ...)
ToolCallsAfter(event, calls, pendings) ==
    IF event.type = "TOOL_CALL_RESULT" /\ event.toolCallId \in DOMAIN pendings
    THEN Append(calls, FinalizedToolCall(pendings[event.toolCallId], event))
    ELSE calls

PendingAfter_CreatesOnArgs(event, pendings) ==
    CASE event.type \in {"TOOL_CALL_START", "TOOL_CALL_ARGS"}
              /\ event.toolCallId \notin DOMAIN pendings ->
            MapSet(pendings, event.toolCallId, PendingToolCall(event.toolCallName, event.ts))
      [] event.type = "TOOL_CALL_START" ->
            MapSet(pendings, event.toolCallId, PendingToolCall(event.toolCallName, event.ts))
      [] event.type = "TOOL_CALL_ARGS" ->
            [pendings EXCEPT ![event.toolCallId].argsBuffer = @ \o event.text]
      [] event.type = "TOOL_CALL_RESULT" /\ event.toolCallId \in DOMAIN pendings ->
            MapDelete(pendings, event.toolCallId)
      [] OTHER -> pendings

PendingAfter_SharedBuffer(event, pendings) ==
    CASE event.type = "TOOL_CALL_START" ->
            MapSet(pendings, event.toolCallId, PendingToolCall(event.toolCallName, event.ts))
      [] event.type = "TOOL_CALL_ARGS" ->
            [id \in DOMAIN pendings |->
                [pendings[id] EXCEPT !.argsBuffer = @ \o event.text]]
      [] event.type = "TOOL_CALL_RESULT" /\ event.toolCallId \in DOMAIN pendings ->
            MapDelete(pendings, event.toolCallId)
      [] OTHER -> pendings

PendingAfter_KeepsAfterResult(event, pendings) ==
    CASE event.type = "TOOL_CALL_START" ->
            MapSet(pendings, event.toolCallId, PendingToolCall(event.toolCallName, event.ts))
      [] event.type = "TOOL_CALL_ARGS" /\ event.toolCallId \in DOMAIN pendings ->
            [pendings EXCEPT ![event.toolCallId].argsBuffer = @ \o event.text]
      [] OTHER -> pendings

\* pendingToolCalls after handleEvent(event, ...)
PendingAfter(event, pendings) ==
    CASE event.type = "TOOL_CALL_START" ->
            MapSet(pendings, event.toolCallId, PendingToolCall(event.toolCallName, event.ts))
      [] event.type = "TOOL_CALL_ARGS" /\ event.toolCallId \in DOMAIN pendings ->
            [pendings EXCEPT ![event.toolCallId].argsBuffer = @ \o event.text]
      [] event.type = "TOOL_CALL_RESULT" /\ event.toolCallId \in DOMAIN pendings ->
            MapDelete(pendings, event.toolCallId)
      [] OTHER -> pendings

TextAfter_Prepends(event, text) ==
    IF event.type = "TEXT_MESSAGE_CONTENT" THEN event.text \o text ELSE text

\* assistantText after handleEvent(event, ...)
TextAfter(event, text) ==
    IF event.type = "TEXT_MESSAGE_CONTENT" THEN text \o event.text ELSE text

\* case "RUN_ERROR": throw new Error(...)
Throws_Never(event) == FALSE

Throws(event) == event.type = "RUN_ERROR"

\* one iteration of `for await (const event of events)`: the timestamps are
\* tracked, then handleEvent runs; RUN_ERROR makes it throw
handleEvent(event) ==
    /\ pc = "streaming"
    /\ turnStartTs' = IF Has(turnStartTs) THEN turnStartTs ELSE Some(event.ts)
    /\ turnEndTs' = Some(event.ts)
    /\ toolCalls' = ToolCallsAfter(event, toolCalls, pendingToolCalls)
    /\ pendingToolCalls' = PendingAfter(event, pendingToolCalls)
    /\ assistantText' = TextAfter(event, assistantText)
    /\ IF Throws(event)
       THEN pc' = "threw" /\ thrown' = Some("AG-UI run error")
       ELSE pc' = pc /\ thrown' = thrown
    /\ consumed' = consumed + 1
    /\ lastEvent' = Some(event)
    /\ turnData' = turnData

OrNow_AlwaysClock(ts, clock) == clock

\* `startTs ?? now`
OrNow(ts, clock) == IF Has(ts) THEN Get(ts) ELSE clock

\* the TurnData collectTurnData returns when the sequence ends
TurnRecord(turnIndex, calls, text, start, end, clock) ==
    [ turnIndex |-> turnIndex, toolCalls |-> calls, assistantText |-> text,
      startTs |-> OrNow(start, clock), endTs |-> OrNow(end, clock) ]

collectTurnDataReturns(clock) ==
    /\ pc = "streaming"
    /\ turnData' = Some(TurnRecord(i, toolCalls, assistantText, turnStartTs, turnEndTs, clock))
    /\ pc' = "collected"
    /\ UNCHANGED <<streamVars, thrown, consumed, lastEvent>>

----------------------------------------------------------------------------
(* runner/test.ts: runTest *)

hasAssertions_ToolsOnly(block) ==
    \/ Has(block.tools.forbid) /\ Len(Get(block.tools.forbid)) > 0
    \/ Has(block.tools.require) /\ Len(Get(block.tools.require)) > 0
    \/ Has(block.tools.forbid_calls) /\ Len(Get(block.tools.forbid_calls)) > 0

hasAssertions(block) ==
    \/ Has(block.tools.forbid) /\ Len(Get(block.tools.forbid)) > 0
    \/ Has(block.tools.require) /\ Len(Get(block.tools.require)) > 0
    \/ Has(block.tools.forbid_calls) /\ Len(Get(block.tools.forbid_calls)) > 0
    \/ Has(block.timing.max_duration_ms)
    \/ Has(block.timing.max_idle_ms)
    \/ Has(block.text.must_match) /\ Len(Get(block.text.must_match).patterns) > 0
    \/ Has(block.text.must_not_match) /\ Len(Get(block.text.must_not_match).patterns) > 0

\* formatFailure(failure, turnIndex): the message with its "[Turn k]" prefix
formatFailure(failure, turnIndex) == [failure EXCEPT !.turn = turnIndex]

FormatAll(results, turnIndex) ==
    [k \in 1..Len(results) |-> formatFailure(results[k], turnIndex)]

buildTestData_WithAbortedTurn(turnList, start, clock) ==
    LET all == IF pc = "threw"
               THEN Append(turnList, TurnRecord(i, toolCalls, assistantText, turnStartTs,
                                                turnEndTs, clock))
               ELSE turnList
    IN  [ turns |-> all,
          allToolCalls |-> ConcatAll([k \in 1..Len(all) |-> all[k].toolCalls]),
          allAssistantTexts |-> [k \in 1..Len(all) |-> all[k].assistantText],
          startTs |-> start,
          endTs |-> clock ]

buildTestData(turnList, start, clock) ==
    [ turns |-> turnList,
      allToolCalls |-> ConcatAll([k \in 1..Len(turnList) |-> turnList[k].toolCalls]),
      allAssistantTexts |-> [k \in 1..Len(turnList) |-> turnList[k].assistantText],
      startTs |-> start,
      endTs |-> clock ]

TestResult(passed, testData, error, failureList) ==
    [passed |-> passed, testData |-> testData, error |-> error, failures |-> failureList]

TurnEvaluationInput_AllTurns(data, turnList) ==
    [data EXCEPT !.toolCalls = ConcatAll([k \in 1..Len(turnList) |-> turnList[k].toolCalls])]

\* the data the turn-level evaluation of a turn is given (test.ts:198)
TurnEvaluationInput(data, turnList) == data

TurnAssertions_TurnOnly(cfg, k) == mergeAssertBlocks(None, None, cfg.turns[k + 1])

\* the merged block of the turn at index k (0-based), test.ts:183-187
TurnAssertions(cfg, k) == mergeAssertBlocks(cfg.target, cfg.test, cfg.turns[k + 1])

\* the merged block of the test-level evaluation, test.ts:227-231
TestAssertions(cfg) == mergeAssertBlocks(cfg.target, cfg.test, None)

\* the failures of the turn-level evaluation (test.ts:197-204), [] when the
\* block holds no assertion
TurnFailures(cfg, k, data, turnList) ==
    IF hasAssertions(TurnAssertions(cfg, k))
    THEN FormatAll(evaluateTurnAssertions(TurnEvaluationInput(data, turnList),
                                          TurnAssertions(cfg, k)).results, k + 1)
    ELSE <<>>

TestFailures_FirstOnly(cfg, testData) ==
    IF hasAssertions(TestAssertions(cfg))
    THEN LET all == FormatAll(evaluateTestAssertions(testData, TestAssertions(cfg)).results, 0)
         IN  IF all = <<>> THEN <<>> ELSE <<Head(all)>>
    ELSE <<>>

\* the failures of the test-level evaluation (test.ts:241-250)
TestFailures(cfg, testData) ==
    IF hasAssertions(TestAssertions(cfg))
    THEN FormatAll(evaluateTestAssertions(testData, TestAssertions(cfg)).results, 0)
    ELSE <<>>

NumTurns == Len(config.turns)

\* test.ts:76-121, a test without hooks or whose hooks all succeed
HooksSucceed ==
    /\ pc = "hooks"
    /\ pc' = "turn"
    /\ log' = Append(log, <<"hooks", 0>>)
    /\ UNCHANGED <<call, ret, config, now, startTs, i, turns, failures, result, streamVars,
                   turnData, thrown, consumed, lastEvent, events>>

\* test.ts:111-119, executeHook throws
HookFails ==
    /\ pc = "hooks"
    /\ config.hooks > 0
    /\ pc' = "done"
    /\ result' = Some(TestResult(FALSE, buildTestData(turns, startTs, now),
                                 Some(Failure("Hook failed", "", "", 0, 0)),
                                 << Failure("Hook failed", "", "", 0, 0) >>))
    /\ log' = Append(log, <<"hook failed", 0>>)
    /\ UNCHANGED <<call, ret, config, now, startTs, i, turns, failures, streamVars,
                   turnData, thrown, consumed, lastEvent, events>>

\* test.ts:132-169, the event source of turn i is created and collectTurnData
\* starts to consume it
StartTurn ==
    /\ pc = "turn"
    /\ i < NumTurns
    /\ pc' = "streaming"
    /\ toolCalls' = <<>>
    /\ pendingToolCalls' = EmptyMap
    /\ assistantText' = <<>>
    /\ turnStartTs' = None
    /\ turnEndTs' = None
    /\ turnData' = None
    /\ consumed' = 0
    /\ lastEvent' = None
    /\ log' = Append(log, <<"start", i>>)
    /\ UNCHANGED <<call, ret, config, now, startTs, i, turns, failures, result, thrown, events>>

\* the events a live source delivers: the client stamps each with its
\* arrival time
LiveEvents(ts) ==
    { Event("TOOL_CALL_START", "t1", n, <<>>, ts) : n \in ToolNames }
    \cup { Event("TOOL_CALL_RESULT", "t1", "", <<"x">>, ts),
           Event("TEXT_MESSAGE_CONTENT", "", "", <<"x">>, ts),
           Event("RUN_FINISHED", "", "", <<>>, ts),
           Event("RUN_ERROR", "", "", <<>>, ts) }

\* the next event of turn i arrives and is handled
NextEvent ==
    /\ consumed < MaxEvents
    /\ \E d \in 1..MaxTick :
         /\ now' = now + d
         /\ \E e \in LiveEvents(now + d) : handleEvent(e)
    /\ UNCHANGED <<call, ret, runVars, events>>

\* the event sequence of turn i ends
EndOfEvents ==
    /\ now' = now
    /\ collectTurnDataReturns(now)
    /\ log' = Append(log, <<"end", i>>)
    /\ UNCHANGED <<call, ret, config, startTs, i, turns, failures, result, events>>

TurnCompleted_NoReturn ==
    /\ pc = "collected"
    /\ turns' = Append(turns, Get(turnData))
    /\ failures' = failures \o TurnFailures(config, i, Get(turnData), turns')
    /\ log' = IF hasAssertions(TurnAssertions(config, i))
              THEN Append(log, <<"eval", i>>) ELSE log
    /\ pc' = "turn"
    /\ i' = i + 1
    /\ UNCHANGED <<call, ret, config, now, startTs, result, streamVars, turnData, thrown, consumed,
                   lastEvent, events>>

\* test.ts:175-213, after collectTurnData returned
TurnCompleted ==
    /\ pc = "collected"
    /\ LET data == Get(turnData)
           newTurns == Append(turns, data)
           found == TurnFailures(config, i, data, newTurns)
       IN  /\ turns' = newTurns
           /\ failures' = failures \o found
           /\ log' = IF hasAssertions(TurnAssertions(config, i))
                     THEN Append(log, <<"eval", i>>) ELSE log
           /\ IF found # <<>>
              THEN /\ result' = Some(TestResult(FALSE, buildTestData(newTurns, startTs, now),
                                                None, failures \o found))
                   /\ pc' = "done"
                   /\ i' = i
              ELSE /\ result' = result
                   /\ pc' = "turn"
                   /\ i' = i + 1
    /\ UNCHANGED <<call, ret, config, now, startTs, streamVars, turnData, thrown, consumed, lastEvent, events>>

\* test.ts:214-222, collectTurnData rejected
TurnFails ==
    /\ pc = "threw"
    /\ pc' = "done"
    /\ result' = Some(TestResult(FALSE, buildTestData(turns, startTs, now),
                                 Some(formatFailure(Failure("Turn failed", "", "", 0, 0), i + 1)),
                                 << formatFailure(Failure("Turn failed", "", "", 0, 0), i + 1) >>))
    /\ log' = Append(log, <<"turn failed", i>>)
    /\ UNCHANGED <<call, ret, config, now, startTs, i, turns, failures, streamVars,
                   turnData, thrown, consumed, lastEvent, events>>

TestLevel_OffByOne ==
    /\ pc = "turn"
    /\ i >= NumTurns - 1
    /\ LET testData == buildTestData(turns, startTs, now)
           found == TestFailures(config, testData)
       IN  /\ failures' = failures \o found
           /\ result' = Some(TestResult(Len(failures \o found) = 0, testData, None,
                                        failures \o found))
           /\ log' = IF hasAssertions(TestAssertions(config))
                     THEN Append(log, <<"test", i>>) ELSE log
    /\ pc' = "done"
    /\ UNCHANGED <<call, ret, config, now, startTs, i, turns, streamVars, turnData, thrown,
                   consumed, lastEvent, events>>

\* test.ts:225-257, after the loop
TestLevel ==
    /\ pc = "turn"
    /\ i = NumTurns
    /\ LET testData == buildTestData(turns, startTs, now)
           found == TestFailures(config, testData)
       IN  /\ failures' = failures \o found
           /\ result' = Some(TestResult(Len(failures \o found) = 0, testData, None,
                                        failures \o found))
           /\ log' = IF hasAssertions(TestAssertions(config))
                     THEN Append(log, <<"test", i>>) ELSE log
    /\ pc' = "done"
    /\ UNCHANGED <<call, ret, config, now, startTs, i, turns, streamVars, turnData, thrown,
                   consumed, lastEvent, events>>

----------------------------------------------------------------------------
(* The inputs of runTest: assert blocks at the three scopes *)

ToolsAssert(forbid, require, forbidCalls) ==
    [forbid |-> forbid, require |-> require, forbid_calls |-> forbidCalls]
TimingAssert(maxDuration, maxIdle) ==
    [max_duration_ms |-> maxDuration, max_idle_ms |-> maxIdle]
TextAssert(mustMatch, mustNotMatch) ==
    [must_match |-> mustMatch, must_not_match |-> mustNotMatch]
AssertBlock(tools, timing, text) == Some([tools |-> tools, timing |-> timing, text |-> text])

CountConstraint(exact, min, max) == [exact |-> exact, min |-> min, max |-> max]
RequireToolWith(name, count, argsMatch, resultMatch, resultNotMatch, after) ==
    [ name |-> name, count |-> count, args_match |-> argsMatch,
      result_match |-> resultMatch, result_not_match |-> resultNotMatch, after |-> after ]
RequireTool(name, count, after) == RequireToolWith(name, count, None, None, None, after)
ForbidCallWith(name, argsMatch, resultMatch) ==
    [name |-> name, args_match |-> argsMatch, result_match |-> resultMatch]
ForbidCall(name) == ForbidCallWith(name, None, None)
Pattern(p) == [single |-> TRUE, patterns |-> <<p>>]

TargetBlocks ==
    { None,
      AssertBlock(Some(ToolsAssert(Some(<<"a">>), None, None)), None, None),
      AssertBlock(None, Some(TimingAssert(Some(1), Some(1))),
                  Some(TextAssert(None, Some(Pattern(<<"x", "x">>))))) }

TestBlocks ==
    { None,
      AssertBlock(Some(ToolsAssert(Some(<<"a">>), None, None)), None, None),
      AssertBlock(Some(ToolsAssert(None,
                      Some(<<RequireTool("a", Some(CountConstraint(None, None, Some(1))),
                                         None)>>),
                      None)), None, None) }

TurnBlocks ==
    { None,
      AssertBlock(Some(ToolsAssert(None, Some(<<RequireTool("a", None, None)>>), None)),
                  None, None),
      AssertBlock(Some(ToolsAssert(Some(<<"a">>), None, Some(<<ForbidCall("b")>>))),
                  Some(TimingAssert(Some(Disabled), Some(Disabled))),
                  Some(TextAssert(Some(PatternList(<<<<"x">>>>)), None))) }

TurnLists == UNION { [1..n -> TurnBlocks] : n \in 1..MaxTurns }

\* every test of the model declares one hook, which succeeds or fails; a test
\* without hooks proceeds like one whose hook succeeded
Configs ==
    [target : TargetBlocks, test : TestBlocks, turns : TurnLists, hooks : {1}]

Init ==
    /\ config \in Configs
    /\ pc = "hooks"
    /\ now = 0
    /\ startTs = 0
    /\ i = 0
    /\ turns = <<>>
    /\ failures = <<>>
    /\ result = None
    /\ toolCalls = <<>>
    /\ pendingToolCalls = EmptyMap
    /\ assistantText = <<>>
    /\ turnStartTs = None
    /\ turnEndTs = None
    /\ turnData = None
    /\ thrown = None
    /\ consumed = 0
    /\ lastEvent = None
    /\ events = <<>>
    /\ log = <<>>
    /\ call = None
    /\ ret = None

Next ==
    \/ HooksSucceed
    \/ HookFails
    \/ StartTurn
    \/ NextEvent
    \/ EndOfEvents
    \/ TurnCompleted
    \/ TurnFails
    \/ TestLevel

Spec == Init /\ [][Next]_vars

----------------------------------------------------------------------------
(* The reconstruction model: one collectTurnData call over an arbitrary    *)
(* event sequence, with arbitrary arrival timestamps, whose events are     *)
(* recorded.                                                               *)

\* the deltas of the TOOL_CALL_ARGS events: pieces of "{}" and of numerals
ArgsDeltas == { <<"{">>, <<"}">>, <<"1">> }

TraceEvents ==
    UNION { { Event("TOOL_CALL_START", id, n, <<>>, ts) : id \in ToolCallIds, n \in ToolNames }
            \cup { Event("TOOL_CALL_ARGS", id, "", d, ts) : id \in ToolCallIds, d \in ArgsDeltas }
            \cup { Event("TOOL_CALL_RESULT", id, "", <<"x">>, ts) : id \in ToolCallIds }
            \cup { Event("TOOL_CALL_END", "t1", "", <<>>, ts),
                   TextMessageContent("m1", <<"x">>, ts),
                   TextMessageContent("m2", <<"y">>, ts),
                   Event("RUN_ERROR", "", "", <<>>, ts) }
          : ts \in 0..MaxTs }

InitTurn ==
    /\ config = [target |-> None, test |-> None, turns |-> <<None>>, hooks |-> 0]
    /\ pc = "streaming"
    /\ now = MaxTs + 1
    /\ startTs = 0
    /\ i = 0
    /\ turns = <<>>
    /\ failures = <<>>
    /\ result = None
    /\ toolCalls = <<>>
    /\ pendingToolCalls = EmptyMap
    /\ assistantText = <<>>
    /\ turnStartTs = None
    /\ turnEndTs = None
    /\ turnData = None
    /\ thrown = None
    /\ consumed = 0
    /\ lastEvent = None
    /\ events = <<>>
    /\ log = <<>>
    /\ call = None
    /\ ret = None

\* the source yields one more event
Observe ==
    /\ consumed < MaxTraceEvents
    /\ \E e \in TraceEvents :
         /\ handleEvent(e)
         /\ events' = Append(events, e)
    /\ UNCHANGED <<call, ret, runVars, now>>

\* the source ends
Returns ==
    /\ collectTurnDataReturns(now)
    /\ UNCHANGED <<call, ret, runVars, now, events>>

NextTurn == Observe \/ Returns

SpecTurn == InitTurn /\ [][NextTurn]_vars

\* The merge model: one mergeAssertBlocks call on the blocks of the three
\* scopes.  The blocks are drawn per category (timing only, tools only, text
\* only, each scope absent or present), and as one mixed block at a single
\* scope with the other scopes absent or empty.
TimingValues == {None, Some(Disabled), Some(500), Some(1000)}

TimingOnlyBlocks ==
    { AssertBlock(None, Some(TimingAssert(d, g)), None) : d \in TimingValues, g \in TimingValues }

ToolsOnlyBlocks ==
    { AssertBlock(Some(ToolsAssert(f, r, c)), None, None) :
        f \in {None, Some(<<>>), Some(<<"a">>), Some(<<"a", "b">>)},
        r \in {None, Some(<<RequireTool("a", None, None)>>)},
        c \in {None, Some(<<ForbidCall("b")>>)} }

\* a text constraint: unset, the string "", the string "x", or an array
TextValues ==
    { None, Some(Pattern(<<>>)), Some(Pattern(<<"x">>)),
      Some(PatternList(<< <<"x">>, <<"y">> >>)) }

TextOnlyBlocks ==
    { AssertBlock(None, None, Some(TextAssert(m, n))) : m \in TextValues, n \in TextValues }

EmptyBlock == AssertBlock(None, None, None)

MixedBlocks ==
    { AssertBlock(tools, timing, text) :
        tools \in {None, Some(ToolsAssert(Some(<<"a", "a">>), None, Some(<<ForbidCall("b")>>))),
                   Some(ToolsAssert(None, Some(<<RequireTool("a", None, None)>>), None))},
        timing \in {None, Some(TimingAssert(Some(1000), None)),
                    Some(TimingAssert(Some(Disabled), Some(500)))},
        text \in {None, Some(TextAssert(Some(Pattern(<<"x">>)), None)),
                  Some(TextAssert(None, Some(PatternList(<< <<"x">>, <<"y">> >>)))),
                  Some(TextAssert(Some(PatternList(<<>>)), Some(Pattern(<<>>))))} }

MergeCall(target, test, turn) == [target |-> target, test |-> test, turn |-> turn]

SingleScopeCalls ==
    UNION { { MergeCall(b, o1, o2), MergeCall(o1, b, o2), MergeCall(o1, o2, b) } :
            b \in MixedBlocks, o1 \in {None, EmptyBlock}, o2 \in {None, EmptyBlock} }

MergeCalls ==
    UNION { [target : {None} \cup family, test : {None} \cup family, turn : {None} \cup family] :
            family \in {TimingOnlyBlocks, ToolsOnlyBlocks, TextOnlyBlocks} }
    \cup SingleScopeCalls

InitMerge ==
    /\ config = [target |-> None, test |-> None, turns |-> <<None>>, hooks |-> 0]
    /\ pc = "merge"
    /\ now = 0
    /\ startTs = 0
    /\ i = 0
    /\ turns = <<>>
    /\ failures = <<>>
    /\ result = None
    /\ toolCalls = <<>>
    /\ pendingToolCalls = EmptyMap
    /\ assistantText = <<>>
    /\ turnStartTs = None
    /\ turnEndTs = None
    /\ turnData = None
    /\ thrown = None
    /\ consumed = 0
    /\ lastEvent = None
    /\ events = <<>>
    /\ log = <<>>
    /\ call \in MergeCalls
    /\ ret = None

Merge ==
    /\ pc = "merge"
    /\ ret' = Some(mergeAssertBlocks(call.target, call.test, call.turn))
    /\ pc' = "merged"
    /\ UNCHANGED <<call, runVars, now, streamVars, turnData, thrown, consumed, lastEvent,
                   events>>

SpecMerge == InitMerge /\ [][Merge]_vars

\* The timing model: one assertTiming call on a TimingContext whose tool
\* calls come in any order of timestamps, under every combination of unset,
\* false and numeric bounds.
TimedCall(name, ts) ==
    [name |-> name, args |-> EmptyObject, result |-> JsValue("string", <<>>),
     timestamp |-> ts]

TimedCalls == { TimedCall(n, ts) : n \in ToolNames, ts \in 0..MaxTime }

TimingContext(start, end, calls) == [startTs |-> start, endTs |-> end, toolCalls |-> calls]

TimingContexts ==
    { TimingContext(st, en, calls) :
        st \in 0..MaxTime, en \in 0..MaxTime,
        calls \in UNION { [1..n -> TimedCalls] : n \in 0..MaxCalls } }

TimingBounds == {None, Some(Disabled)} \cup { Some(b) : b \in 0..MaxTime }

TimingConstraints == { TimingAssert(d, g) : d \in TimingBounds, g \in TimingBounds }

InitTiming ==
    /\ config = [target |-> None, test |-> None, turns |-> <<None>>, hooks |-> 0]
    /\ pc = "timing"
    /\ now = 0
    /\ startTs = 0
    /\ i = 0
    /\ turns = <<>>
    /\ failures = <<>>
    /\ result = None
    /\ toolCalls = <<>>
    /\ pendingToolCalls = EmptyMap
    /\ assistantText = <<>>
    /\ turnStartTs = None
    /\ turnEndTs = None
    /\ turnData = None
    /\ thrown = None
    /\ consumed = 0
    /\ lastEvent = None
    /\ events = <<>>
    /\ log = <<>>
    /\ call \in [context : TimingContexts, constraints : TimingConstraints]
    /\ ret = None

CheckTiming ==
    /\ pc = "timing"
    /\ ret' = Some(assertTiming(call.context, call.constraints))
    /\ pc' = "checked"
    /\ UNCHANGED <<call, runVars, now, streamVars, turnData, thrown, consumed, lastEvent,
                   events>>

\* computeIdleGaps on its own
ComputeGaps ==
    /\ pc = "timing"
    /\ ret' = Some(computeIdleGaps(call.context))
    /\ pc' = "gaps"
    /\ UNCHANGED <<call, runVars, now, streamVars, turnData, thrown, consumed, lastEvent,
                   events>>

NextTiming == CheckTiming \/ ComputeGaps

SpecTiming == InitTiming /\ [][NextTiming]_vars

\* The idle-window model: one collectTurnData call over the start and result
\* events of a tool "s" arriving at 100 or 150, whose ToolCall list is then
\* given to assertTiming with a window and an idle bound.
WindowEvents ==
    { Event("TOOL_CALL_START", "t1", "s", <<>>, ts) : ts \in {100, 150} }
    \cup { Event("TOOL_CALL_RESULT", "t1", "", <<"x">>, ts) : ts \in {100, 150} }

ObserveWindowEvent ==
    /\ consumed < MaxWindowEvents
    /\ \E e \in WindowEvents :
         /\ handleEvent(e)
         /\ events' = Append(events, e)
    /\ UNCHANGED <<call, ret, runVars, now>>

CheckWindow ==
    /\ pc = "collected"
    /\ \E st \in {0, 100}, en \in {150, 200}, bound \in {40, 60, 100} :
         /\ call' = [ context |-> TimingContext(st, en, Get(turnData).toolCalls),
                      constraints |-> TimingAssert(None, Some(bound)) ]
         /\ ret' = Some(assertTiming(call'.context, call'.constraints))
    /\ pc' = "checked"
    /\ UNCHANGED <<runVars, now, streamVars, turnData, thrown, consumed, lastEvent, events>>

NextWindow == ObserveWindowEvent \/ Returns \/ CheckWindow

SpecWindow == InitTurn /\ [][NextWindow]_vars

\* The tools model: one call of assertRequiredTools, assertForbiddenCalls or
\* assertForbiddenTools on a call list, or one test-level evaluation of a
\* require entry over the call lists of two turns.  A value "xy" contains the
\* pattern "x", a value "y" does not.
StringValue(text) == JsValue("string", text)

ArgsValues ==
    { EmptyObject,
      ObjectValue([q |-> StringValue(<<"x", "y">>)]),
      ObjectValue([q |-> StringValue(<<"y">>)]),
      ObjectValue([q |-> StringValue(<<"x", "y">>), r |-> StringValue(<<"x">>)]) }

CheckedCall(name, args, res) ==
    [name |-> name, args |-> args, result |-> res, timestamp |-> 0]

CheckedCalls ==
    { CheckedCall(n, a, StringValue(r)) :
        n \in ToolNames, a \in ArgsValues, r \in {<<"x">>, <<"y">>} }

CallLists == UNION { [1..n -> CheckedCalls] : n \in 0..MaxToolCalls }

PlainCallLists ==
    UNION { [1..n -> { CheckedCall(x, EmptyObject, StringValue(<<"x">>)) : x \in ToolNames }] :
            n \in 0..MaxToolCalls }

\* args_match: unset, {q: "x"}, or {q: "x", r: "x"}
ArgsMatches ==
    { None, Some(<< <<<<"q">>, <<"x">>>> >>),
      Some(<< <<<<"q">>, <<"x">>>>, <<<<"r">>, <<"x">>>> >>) }

CountConstraints ==
    { None, Some(CountConstraint(Some(1), None, None)),
      Some(CountConstraint(None, Some(2), None)),
      Some(CountConstraint(None, None, Some(1))) }

RequireEntries ==
    { RequireToolWith("a", c, am, rm, rnm, af) :
        c \in CountConstraints, am \in ArgsMatches,
        rm \in {None, Some(<<"x">>)}, rnm \in {None, Some(<<"x">>)},
        af \in {None, Some("b"), Some("c")} }

ForbidCallEntries ==
    { ForbidCallWith("a", am, rm) : am \in ArgsMatches, rm \in {None, Some(<<"x">>)} }

ForbidLists == UNION { [1..n -> ToolNames] : n \in 0..MaxToolCalls }

OrderedEntries ==
    { RequireToolWith(n, None, None, None, rnm, Some(af)) :
        n \in ToolNames, rnm \in {None, Some(<<"x">>)}, af \in ToolNames }

\* for "test_scope", calls is the list of the call lists of the turns
ToolsCall(fn, calls, arg) == [fn |-> fn, calls |-> calls, arg |-> arg]

IsToolsCall(c) ==
    \/ \E calls \in CallLists, req \in RequireEntries :
          c = ToolsCall("assertRequiredTools", calls, req)
    \/ \E calls \in CallLists, forbid \in ForbidCallEntries :
          c = ToolsCall("assertForbiddenCalls", calls, forbid)
    \/ \E calls \in CallLists, forbidden \in ForbidLists :
          c = ToolsCall("assertForbiddenTools", calls, forbidden)
    \/ \E first \in PlainCallLists, second \in PlainCallLists, req \in OrderedEntries :
          c = ToolsCall("test_scope", <<first, second>>, req)

InitTools ==
    /\ config = [target |-> None, test |-> None, turns |-> <<None>>, hooks |-> 0]
    /\ pc = "tools"
    /\ now = 0
    /\ startTs = 0
    /\ i = 0
    /\ turns = <<>>
    /\ failures = <<>>
    /\ result = None
    /\ toolCalls = <<>>
    /\ pendingToolCalls = EmptyMap
    /\ assistantText = <<>>
    /\ turnStartTs = None
    /\ turnEndTs = None
    /\ turnData = None
    /\ thrown = None
    /\ consumed = 0
    /\ lastEvent = None
    /\ events = <<>>
    /\ log = <<>>
    /\ IsToolsCall(call)
    /\ ret = None

Returned_Tools(results) ==
    /\ pc = "tools"
    /\ ret' = Some(results)
    /\ pc' = "checked"
    /\ UNCHANGED <<call, runVars, now, streamVars, turnData, thrown, consumed, lastEvent,
                   events>>

CheckRequiredTools ==
    /\ call.fn = "assertRequiredTools"
    /\ Returned_Tools(assertRequiredTools(call.calls, <<call.arg>>))

CheckForbiddenCalls ==
    /\ call.fn = "assertForbiddenCalls"
    /\ Returned_Tools(assertForbiddenCalls(call.calls, <<call.arg>>))

CheckForbiddenTools ==
    /\ call.fn = "assertForbiddenTools"
    /\ Returned_Tools(assertForbiddenTools(call.calls, call.arg))

\* runTest's test-level evaluation of a block that requires call.arg, over
\* the records of the turns
CheckTestScope ==
    /\ call.fn = "test_scope"
    /\ LET turnList == [ k \in 1..Len(call.calls) |->
                           TurnRecord(k - 1, call.calls[k], <<>>, Some(0), Some(0), 0) ]
           block == mergeAssertBlocks(None,
                        AssertBlock(Some(ToolsAssert(None, Some(<<call.arg>>), None)),
                                    None, None),
                        None)
       IN  Returned_Tools(evaluateTestAssertions(buildTestData(turnList, 0, 0),
                                                 block).results)

NextTools == CheckRequiredTools \/ CheckForbiddenCalls \/ CheckForbiddenTools \/ CheckTestScope

SpecTools == InitTools /\ [][NextTools]_vars

\* The argument model: one collectTurnData call over the tool-call events of
\* two calls, each id naming one tool, long enough for the deltas of two
\* pending calls to interleave before a result.
ToolTraceEvents ==
    { Event("TOOL_CALL_START", "t1", "a", <<>>, 0),
      Event("TOOL_CALL_START", "t2", "b", <<>>, 0) }
    \cup { Event("TOOL_CALL_ARGS", id, "", d, 0) : id \in ToolCallIds, d \in ArgsDeltas }
    \cup { Event("TOOL_CALL_RESULT", id, "", <<"x">>, 0) : id \in ToolCallIds }

ObserveToolEvent ==
    /\ consumed < MaxToolEvents
    /\ \E e \in ToolTraceEvents :
         /\ handleEvent(e)
         /\ events' = Append(events, e)
    /\ UNCHANGED <<call, ret, runVars, now>>

NextArgs == ObserveToolEvent \/ Returns

SpecArgs == InitTurn /\ [][NextArgs]_vars

----------------------------------------------------------------------------
(* Properties of runTest (specification Spec) *)

Logged(kind, k) == \E p \in 1..Len(log) : log[p] = <<kind, k>>
LoggedKind(kind) == \E p \in 1..Len(log) : log[p][1] = kind
Returned == pc = "done"

\* what evaluating the merged block of turn k (1-based position in turns)
\* against that turn's own record yields
OwnTurnResults(k) ==
    evaluateTurnAssertions(turns[k], TurnAssertions(config, k - 1)).results

\* what evaluating merge(target, test, undefined) against a TestRecord yields
TestLevelResults(testData) ==
    evaluateTestAssertions(testData, TestAssertions(config)).results

AllTurnsCompleted == Len(turns) = NumTurns
NoTurnLevelFailure == \A k \in 1..Len(turns) : OwnTurnResults(k) = <<>>

\* C1: runTest returns passed = true iff no hook failed, no turn raised an
\* execution failure, no turn-level evaluation produced a failure and the
\* test-level evaluation produced none; in every other case it returns
\* passed = false with a non-empty failures list.
C1_PassIffNoFailure ==
    Returned =>
        LET r == Get(result)
            clean == /\ ~LoggedKind("hook failed")
                     /\ ~LoggedKind("turn failed")
                     /\ NoTurnLevelFailure
                     /\ AllTurnsCompleted
                     /\ TestLevelResults(r.testData) = <<>>
        IN  /\ r.passed <=> clean
            /\ r.passed => r.failures = <<>> /\ ~Has(r.error)
            /\ ~r.passed => Len(r.failures) > 0

C1_Witness_Pass ==
    /\ Returned /\ Get(result).passed
    /\ NumTurns = 2
    /\ hasAssertions(TestAssertions(config))
    /\ Len(Get(result).testData.allToolCalls) > 0

\* C2: if the merged assertions evaluated against turn i's TurnRecord yield a
\* failure, runTest returns FAIL at once: turn i is the last turn recorded, no
\* later turn's event source is ever started, and the test-level assertions
\* are not evaluated.
C2_FailFast ==
    \A k \in 1..Len(turns) :
        OwnTurnResults(k) # <<>> =>
            /\ Returned
            /\ ~Get(result).passed
            /\ Get(result).failures = FormatAll(OwnTurnResults(k), k)
            /\ k = Len(turns)
            /\ \A j \in k..MaxTurns + 1 : ~Logged("start", j)
            /\ ~LoggedKind("test")

C2_Witness_FirstTurnFails ==
    /\ NumTurns = 2
    /\ Len(turns) = 1
    /\ OwnTurnResults(1) # <<>>
    /\ hasAssertions(TestAssertions(config))

\* C3: turns are executed strictly in index order, one at a time: the stream
\* of turn k is started only after the stream of turn k-1 was consumed to its
\* end and its assertions were evaluated; the test-level evaluation happens at
\* most once, after all turns completed without any failure.
C3_SequentialTurns ==
    /\ \A p \in 1..Len(log) :
         log[p][1] = "start" =>
            LET k == log[p][2]
            IN  /\ k = Cardinality({q \in 1..(p - 1) : log[q][1] = "start"})
                /\ k > 0 =>
                     \E q \in 1..(p - 1) :
                        /\ log[q] = <<"end", k - 1>>
                        /\ hasAssertions(TurnAssertions(config, k - 1)) =>
                              \E e \in (q + 1)..(p - 1) : log[e] = <<"eval", k - 1>>
    /\ \A p \in 1..Len(log) :
         log[p][1] = "end" => p > 1 /\ log[p - 1] = <<"start", log[p][2]>>
    /\ Cardinality({p \in 1..Len(log) : log[p][1] = "test"}) <= 1
    /\ LoggedKind("test") =>
         /\ AllTurnsCompleted
         /\ NoTurnLevelFailure
         /\ \A k \in 0..(NumTurns - 1) : Logged("end", k)
         /\ log[Len(log)][1] = "test"

C3_Witness_SecondTurnThenTest ==
    /\ NumTurns = 2
    /\ LoggedKind("test")
    /\ Logged("eval", 0) /\ Logged("eval", 1)

TurnFailedAt(k) == formatFailure(Failure("Turn failed", "", "", 0, 0), k + 1)
RunErrorSeen == Has(lastEvent) /\ Get(lastEvent).type = "RUN_ERROR"

\* C4: when the event source of turn i yields RUN_ERROR, reconstruction
\* stops at that event (no later event is handled, no TurnRecord is built)
\* and runTest returns FAIL with error set to that turn's execution failure;
\* turn i's assertions are not evaluated, no later turn starts and the
\* test-level assertions are not evaluated.
C4_RunErrorAborts ==
    /\ [](RunErrorSeen =>
            /\ pc \in {"threw", "done"}
            /\ turnData = None
            /\ Len(turns) = i
            /\ ~Logged("end", i) /\ ~Logged("eval", i)
            /\ \A j \in (i + 1)..(MaxTurns + 1) : ~Logged("start", j)
            /\ ~LoggedKind("test")
            /\ Returned =>
                 /\ ~Get(result).passed
                 /\ Get(result).error = Some(TurnFailedAt(i))
                 /\ Get(result).failures = << TurnFailedAt(i) >>
                 /\ Len(Get(result).testData.turns) = i)
    /\ [][RunErrorSeen => /\ lastEvent' = lastEvent
                          /\ consumed' = consumed
                          /\ UNCHANGED streamVars]_vars

C4_Witness_SecondTurnRunError ==
    /\ RunErrorSeen
    /\ Returned
    /\ i = 1
    /\ consumed > 1
    /\ hasAssertions(TurnAssertions(config, 1))
    /\ hasAssertions(TestAssertions(config))

\* the failures of each check of the test-level evaluation, taken alone
TestLevelChecks(testData) ==
    LET block == TestAssertions(config)
        calls == ConcatAll([k \in 1..Len(turns) |-> turns[k].toolCalls])
    IN  << IF Has(block.tools.forbid)
           THEN assertForbiddenTools(calls, Get(block.tools.forbid)) ELSE <<>>,
           IF Has(block.tools.require)
           THEN assertRequiredTools(calls, Get(block.tools.require)) ELSE <<>>,
           IF Has(block.tools.forbid_calls)
           THEN assertForbiddenCalls(calls, Get(block.tools.forbid_calls)) ELSE <<>>,
           assertTiming([startTs |-> testData.startTs, endTs |-> testData.endTs,
                         toolCalls |-> calls], block.timing),
           assertText(Join([k \in 1..Len(turns) |-> turns[k].assistantText], <<"\n">>),
                      block.text) >>

\* C5: when all turns succeed, every failure of every test-level check
\* (forbid, require, forbid_calls, timing, text) over the TestRecord is in the
\* returned failures list, none suppressing another, and the TestRecord
\* returned holds all the turns.
C5_TestLevelAggregated ==
    (Returned /\ AllTurnsCompleted /\ NoTurnLevelFailure) =>
        LET r == Get(result)
            checks == TestLevelChecks(r.testData)
        IN  /\ r.failures = FormatAll(ConcatAll(checks), 0)
            /\ r.testData.turns = turns
            /\ r.testData.allToolCalls =
                  ConcatAll([k \in 1..Len(turns) |-> turns[k].toolCalls])
            /\ Len(r.testData.allAssistantTexts) = NumTurns
            /\ r.testData.startTs = startTs /\ r.testData.endTs = now

C5_Witness_TwoTestLevelFailures ==
    /\ Returned /\ AllTurnsCompleted /\ NoTurnLevelFailure
    /\ NumTurns = 2
    /\ Len(Get(result).failures) >= 2
    /\ \E a, b \in 1..Len(Get(result).failures) :
          Get(result).failures[a].assertion # Get(result).failures[b].assertion

ScopeForbids(level, name) ==
    /\ Has(level)
    /\ Has(Get(level).tools)
    /\ Has(Get(Get(level).tools).forbid)
    /\ \E k \in 1..Len(Get(Get(Get(level).tools).forbid)) :
          Get(Get(Get(level).tools).forbid)[k] = name

ScopeRequires(level, name) ==
    /\ Has(level)
    /\ Has(Get(level).tools)
    /\ Has(Get(Get(level).tools).require)
    /\ \E k \in 1..Len(Get(Get(Get(level).tools).require)) :
          Get(Get(Get(level).tools).require)[k].name = name

CalledIn(k, name) == \E c \in 1..Len(turns[k].toolCalls) : turns[k].toolCalls[c].name = name

InFailures(f) ==
    Returned /\ \E x \in 1..Len(Get(result).failures) : Get(result).failures[x] = f

C7_TestScopeEvaluatedAfterAllTurns ==
    (NumTurns = 2 /\ config.target = None /\ config.turns = <<None, None>>
       /\ ScopeRequires(config.test, "a")) =>
        /\ \A x \in 1..Len(failures) : failures[x].turn = 0
        /\ ~Logged("eval", 0)
        /\ (Returned /\ AllTurnsCompleted /\ ~CalledIn(1, "a")
              /\ Len(NamedCalls(turns[2].toolCalls, "a")) = 1) => Get(result).passed

\* C8: the turn-level evaluation of a turn reads that turn's record only: a
\* tool required by the turn's effective block and not called in the turn
\* yields a '0 calls' failure at that turn even when an earlier turn called
\* it, and every forbidden-tool failure and every duration failure reported
\* for a turn comes from that turn's own calls and timestamps.
C8_TurnEvaluationReadsOwnRecord ==
    \A k \in 1..Len(turns) :
        LET block == TurnAssertions(config, k - 1)
        IN  /\ \A r \in 1..(IF Has(block.tools.require)
                            THEN Len(Get(block.tools.require)) ELSE 0) :
                  ~CalledIn(k, Get(block.tools.require)[r].name) =>
                      InFailures(formatFailure(
                          Failure("Tool must be called", Get(block.tools.require)[r].name,
                                  "", 1, 0), k))
            /\ Returned =>
                 \A x \in 1..Len(Get(result).failures) :
                    LET f == Get(result).failures[x]
                    IN  f.turn = k =>
                          /\ f.assertion = "Tool must not be called" => CalledIn(k, f.subject)
                          /\ f.assertion = "Tool call forbidden" => CalledIn(k, f.subject)
                          /\ f.assertion = "Duration constraint" =>
                                f.actual = turns[k].endTs - turns[k].startTs

C8_Witness_RequiredCalledEarlier ==
    /\ Len(turns) = 2
    /\ CalledIn(1, "a") /\ ~CalledIn(2, "a")
    /\ InFailures(formatFailure(Failure("Tool must be called", "a", "", 1, 0), 2))

----------------------------------------------------------------------------
(* Properties of collectTurnData (specification SpecTurn), stated over the *)
(* recorded event sequence                                                 *)

IsStartOf(p, id) == events[p].type = "TOOL_CALL_START" /\ events[p].toolCallId = id
IsResultOf(p, id) == events[p].type = "TOOL_CALL_RESULT" /\ events[p].toolCallId = id

\* the positions of the result events whose id has an open pending entry: a
\* start of that id came before, with no result of that id in between
Finalizing ==
    { r \in 1..Len(events) :
        /\ events[r].type = "TOOL_CALL_RESULT"
        /\ \E st \in 1..(r - 1) :
              /\ IsStartOf(st, events[r].toolCallId)
              /\ \A m \in (st + 1)..(r - 1) : ~IsResultOf(m, events[r].toolCallId) }

\* the k-th of them in arrival order
NthFinalizing(k) ==
    CHOOSE r \in Finalizing : Cardinality({q \in Finalizing : q < r}) = k - 1

\* the start event a result event answers: the last start of its id before it
MatchingStart(r) ==
    CHOOSE st \in 1..(r - 1) :
        /\ IsStartOf(st, events[r].toolCallId)
        /\ \A m \in (st + 1)..(r - 1) : ~IsStartOf(m, events[r].toolCallId)

\* the ids left pending: started, with no result after the start
OpenIds ==
    { id \in ToolCallIds :
        \E st \in 1..Len(events) :
            IsStartOf(st, id) /\ \A m \in (st + 1)..Len(events) : ~IsResultOf(m, id) }

\* C9: each TOOL_CALL_RESULT whose id has an open pending entry appends one
\* ToolCall at the end of the list, named by the matching start event and
\* stamped with the result event's arrival time, and removes the pending
\* entry: the list is in result-arrival order, also when calls overlap.
C9_ToolCallsInResultOrder ==
    /\ Len(toolCalls) = Cardinality(Finalizing)
    /\ \A k \in 1..Len(toolCalls) :
          /\ toolCalls[k].name = events[MatchingStart(NthFinalizing(k))].toolCallName
          /\ toolCalls[k].timestamp = events[NthFinalizing(k)].ts
    /\ DOMAIN pendingToolCalls = OpenIds

C9_Witness_OverlappingCalls ==
    /\ Len(events) = 4
    /\ IsStartOf(1, "t1") /\ IsStartOf(2, "t2") /\ IsResultOf(3, "t2") /\ IsResultOf(4, "t1")
    /\ events[1].toolCallName = "a" /\ events[2].toolCallName = "b"
    /\ events[1].ts = 0 /\ events[3].ts = 1 /\ events[4].ts = 0
    /\ Len(toolCalls) = 2 /\ toolCalls[1].name = "b" /\ toolCalls[2].name = "a"

\* the tool was started, and no start event naming it was ever followed by a
\* result event of the same id
NeverResolved(name) ==
    /\ \E st \in 1..Len(events) :
          events[st].type = "TOOL_CALL_START" /\ events[st].toolCallName = name
    /\ \A st \in 1..Len(events) :
          (events[st].type = "TOOL_CALL_START" /\ events[st].toolCallName = name) =>
              \A m \in (st + 1)..Len(events) : ~IsResultOf(m, events[st].toolCallId)

\* C10: a tool call whose start is never followed by a result of the same id
\* before the sequence ends is not in the TurnRecord's ToolCall list, no
\* assertion sees it (forbidding it yields no failure, requiring it yields
\* '0 calls'), and it raises no error.
C10_UnresolvedCallDropped ==
    \A name \in ToolNames :
        (pc = "collected" /\ NeverResolved(name)) =>
            LET calls == Get(turnData).toolCalls
            IN  /\ \A k \in 1..Len(calls) : calls[k].name # name
                /\ assertForbiddenTools(calls, <<name>>) = <<>>
                /\ assertForbiddenCalls(calls, <<ForbidCall(name)>>) = <<>>
                /\ assertRequiredTools(calls, <<RequireTool(name, None, None)>>)
                      = << Failure("Tool must be called", name, "", 1, 0) >>
                /\ Len(computeIdleGaps(Get(turnData))) = Len(calls) + 1
                /\ thrown = None

C10_Witness_StartedArgsEndNoResult ==
    /\ pc = "collected"
    /\ Len(events) = 4
    /\ IsStartOf(1, "t1") /\ events[1].toolCallName = "a"
    /\ events[2].type = "TOOL_CALL_ARGS" /\ events[2].toolCallId = "t1"
    /\ events[3].type = "TOOL_CALL_END" /\ events[3].toolCallId = "t1"
    /\ IsStartOf(4, "t2") /\ events[4].toolCallName = "b"
    /\ Get(turnData).toolCalls = <<>>

\* the argument buffer of id after the events lo+1 .. hi: the deltas of the
\* TOOL_CALL_ARGS events carrying id, in arrival order
RECURSIVE BufferBetween(_, _, _)
BufferBetween(id, lo, hi) ==
    IF hi <= lo THEN <<>>
    ELSE BufferBetween(id, lo, hi - 1)
           \o (IF events[hi].type = "TOOL_CALL_ARGS" /\ events[hi].toolCallId = id
               THEN events[hi].text ELSE <<>>)

\* the last start event of id
LastStart(id) ==
    CHOOSE st \in 1..Len(events) :
        IsStartOf(st, id) /\ \A m \in (st + 1)..Len(events) : ~IsStartOf(m, id)

\* the buffer the k-th finalized ToolCall was parsed from
BufferOfCall(k) ==
    LET r == NthFinalizing(k)
    IN  BufferBetween(events[r].toolCallId, MatchingStart(r), r - 1)

HandledKinds == {"TEXT_MESSAGE_CONTENT", "TOOL_CALL_START", "TOOL_CALL_ARGS",
                 "TOOL_CALL_RESULT", "RUN_ERROR"}

\* the event has nothing to act on: a delta or a result of an id with no open
\* pending entry, or an event of a kind handleEvent has no case for
NothingToActOn(e) ==
    \/ e.type \in {"TOOL_CALL_ARGS", "TOOL_CALL_RESULT"} /\ e.toolCallId \notin OpenIds
    \/ e.type \notin HandledKinds

RunErrorObserved == \E p \in 1..Len(events) : events[p].type = "RUN_ERROR"

\* C11: an args-delta or result event whose toolCallId has no open pending
\* entry, and any event of a kind other than text-content, tool-call-start,
\* tool-call-args, tool-call-result and run-error, leaves the ToolCall list,
\* the pending map and the transcript unchanged and raises no error.
C11_IgnoredEventsChangeNothing ==
    [][ (consumed' = consumed + 1 /\ NothingToActOn(lastEvent'[1])) =>
            /\ UNCHANGED <<toolCalls, pendingToolCalls, assistantText>>
            /\ thrown' = thrown
            /\ pc' = pc ]_vars

C11_Witness_UnknownIdsAndKind ==
    /\ Len(events) = 3
    /\ events[1].type = "TOOL_CALL_ARGS" /\ events[1].toolCallId = "t1"
    /\ events[2].type = "TOOL_CALL_RESULT" /\ events[2].toolCallId = "t2"
    /\ events[3].type = "TOOL_CALL_END"
    /\ toolCalls = <<>> /\ pendingToolCalls = EmptyMap /\ assistantText = <<>>
    /\ pc = "streaming" /\ thrown = None

\* C12: when the args-delta events of several simultaneously pending tool
\* calls interleave, the buffer parsed for each finalized ToolCall, and the
\* buffer of each call still pending, is the concatenation in arrival order of
\* exactly the deltas carrying its own toolCallId that arrived after its start
\* (and before its result); deltas of other ids never leak into it.
C12_ArgsBufferPerId ==
    /\ \A k \in 1..Len(toolCalls) : toolCalls[k].args = ParseArgs(BufferOfCall(k))
    /\ \A id \in DOMAIN pendingToolCalls :
          pendingToolCalls[id].argsBuffer = BufferBetween(id, LastStart(id), Len(events))

C12_Witness_InterleavedDeltas ==
    /\ Len(events) = 5
    /\ IsStartOf(1, "t1") /\ IsStartOf(2, "t2")
    /\ events[3] = Event("TOOL_CALL_ARGS", "t1", "", <<"1">>, 0)
    /\ events[4] = Event("TOOL_CALL_ARGS", "t2", "", <<"1">>, 0)
    /\ IsResultOf(5, "t1")
    /\ Len(toolCalls) = 1
    /\ toolCalls[1].name = "a" /\ toolCalls[1].args = JsValue("number", <<"1">>)
    /\ pendingToolCalls["t2"].argsBuffer = <<"1">>

\* C13: if a pending call's accumulated argument buffer is not valid JSON when
\* its result event arrives, the ToolCall is still finalized and appended with
\* args equal to the empty object, reconstruction continues with the next
\* event, and no execution failure is raised (only RUN_ERROR raises one).
C13_MalformedArgsRecovered ==
    /\ Len(toolCalls) = Cardinality(Finalizing)
    /\ \A k \in 1..Len(toolCalls) :
          (BufferOfCall(k) # <<>> /\ ~JsonValid(BufferOfCall(k))) =>
              toolCalls[k].args = EmptyObject
    /\ (thrown # None) <=> RunErrorObserved
    /\ (pc = "threw") <=> RunErrorObserved

C13_Witness_MalformedThenText ==
    /\ Len(events) = 4
    /\ IsStartOf(1, "t1")
    /\ events[2].type = "TOOL_CALL_ARGS" /\ events[2].toolCallId = "t1"
    /\ events[2].text = <<"{">>
    /\ IsResultOf(3, "t1")
    /\ events[4].type = "TEXT_MESSAGE_CONTENT"
    /\ Len(toolCalls) = 1 /\ toolCalls[1].args = EmptyObject
    /\ assistantText = events[4].text
    /\ pc = "streaming" /\ thrown = None

\* C14: every finalized ToolCall's args is a JSON object, for every possible
\* content of the argument buffer: empty, invalid JSON, valid object JSON, or
\* valid non-object JSON such as a number.
C14_ArgsAlwaysObject ==
    \A k \in 1..Len(toolCalls) : toolCalls[k].args.type = "object"

\* C15: for a turn with at least one event, TurnRecord.startTs is the arrival
\* timestamp of the first event and endTs that of the last event consumed,
\* whatever their kinds; for a turn with zero events the tool list and the
\* text are empty and startTs = endTs = the local clock reading taken when the
\* sequence ended.
C15_TimestampsFromEvents ==
    pc = "collected" =>
        LET record == Get(turnData)
        IN  IF Len(events) > 0
            THEN /\ record.startTs = events[1].ts
                 /\ record.endTs = events[Len(events)].ts
            ELSE /\ record.toolCalls = <<>>
                 /\ record.assistantText = <<>>
                 /\ record.startTs = now
                 /\ record.endTs = now

C15_Witness_IgnoredKindsBackwardsClock ==
    /\ pc = "collected"
    /\ Len(events) = 3
    /\ events[1].type = "TOOL_CALL_END" /\ events[1].ts = 1
    /\ events[2].type = "TEXT_MESSAGE_CONTENT" /\ events[2].ts = 1
    /\ events[3].type = "TOOL_CALL_END" /\ events[3].ts = 0
    /\ Get(turnData).startTs = 1 /\ Get(turnData).endTs = 0

\* the deltas of the TEXT_MESSAGE_CONTENT events among the first n events, in
\* arrival order
RECURSIVE TextDeltas(_)
TextDeltas(n) ==
    IF n = 0 THEN <<>>
    ELSE TextDeltas(n - 1)
           \o (IF events[n].type = "TEXT_MESSAGE_CONTENT" THEN events[n].text ELSE <<>>)

\* C16: assistantText equals the concatenation, in arrival order, of the
\* deltas of all TEXT_MESSAGE_CONTENT events of the turn, regardless of their
\* messageId and of how they interleave with tool-call events; the TurnRecord
\* carries it.
C16_TranscriptInArrivalOrder ==
    /\ assistantText = TextDeltas(Len(events))
    /\ pc = "collected" => Get(turnData).assistantText = TextDeltas(Len(events))

C16_Witness_TwoMessagesAroundToolCall ==
    /\ pc = "collected"
    /\ Len(events) = 4
    /\ events[1].type = "TEXT_MESSAGE_CONTENT" /\ events[1].messageId = "m1"
    /\ events[2].type = "TEXT_MESSAGE_CONTENT" /\ events[2].messageId = "m2"
    /\ events[3].type = "TOOL_CALL_START"
    /\ events[4].type = "TEXT_MESSAGE_CONTENT" /\ events[4].messageId = "m1"
    /\ Get(turnData).assistantText = <<"x", "y", "x">>

----------------------------------------------------------------------------
(* Properties of mergeAssertBlocks (specification SpecMerge) *)

Scopes == <<"target", "test", "turn">>

\* what scope declares for a timing field (<<>>: it does not set it)
DeclaredTiming(scope, f) ==
    IF Has(call[scope]) /\ Has(Get(call[scope]).timing)
    THEN Get(Get(call[scope]).timing)[f] ELSE None

\* the value of the last scope, in target, test, turn order, that sets f
LastDeclaredTiming(f) ==
    IF Has(DeclaredTiming("turn", f)) THEN DeclaredTiming("turn", f)
    ELSE IF Has(DeclaredTiming("test", f)) THEN DeclaredTiming("test", f)
    ELSE DeclaredTiming("target", f)

\* C17: mergeAssertBlocks computes each timing field (max_duration_ms,
\* max_idle_ms) independently as the value given by the last scope, in target,
\* test, turn order, that explicitly sets it, an explicit false counting as
\* set; a field set by no scope stays unset.
C17_TimingLastWriteWinsPerField ==
    pc = "merged" =>
        \A f \in {"max_duration_ms", "max_idle_ms"} :
            Get(ret).timing[f] = LastDeclaredTiming(f)

C17_Witness_FalseOverridesOneField ==
    /\ pc = "merged"
    /\ call = MergeCall(AssertBlock(None, Some(TimingAssert(Some(1000), Some(500))), None),
                        None,
                        AssertBlock(None, Some(TimingAssert(Some(Disabled), None)), None))
    /\ Get(ret).timing = TimingAssert(Some(Disabled), Some(500))

\* the list scope declares for field f of the tools category
DeclaredTools(scope, f) ==
    IF Has(call[scope]) /\ Has(Get(call[scope]).tools)
          /\ Has(Get(Get(call[scope]).tools)[f])
    THEN Get(Get(Get(call[scope]).tools)[f]) ELSE <<>>

\* the list scope declares for field f of the text category, a single pattern
\* counting as a one-element list
DeclaredText(scope, f) ==
    IF Has(call[scope]) /\ Has(Get(call[scope]).text)
          /\ Has(Get(Get(call[scope]).text)[f])
    THEN Get(Get(Get(call[scope]).text)[f]).patterns ELSE <<>>

\* an effective list, undefined read as empty
EffectiveTools(f) == IF Has(Get(ret).tools[f]) THEN Get(Get(ret).tools[f]) ELSE <<>>
EffectiveText(f) == IF Has(Get(ret).text[f]) THEN Get(Get(ret).text[f]).patterns ELSE <<>>

Occurrences(list, x) == Cardinality({k \in 1..Len(list) : list[k] = x})

OneCallOf(name) ==
    << [name |-> name, args |-> EmptyObject, result |-> JsValue("string", <<>>),
        timestamp |-> 0] >>

\* C18: for each of forbid, require, forbid_calls, must_match and
\* must_not_match, the effective list is the concatenation target ++ test ++
\* turn of the scopes' lists (a single text pattern counting as a one-element
\* list) with order and duplicates preserved; so a tool forbidden at n scopes
\* and called in the turn yields n forbidden-tool failures.
C18_ListsConcatenated ==
    pc = "merged" =>
        /\ \A f \in {"forbid", "require", "forbid_calls"} :
              EffectiveTools(f) = DeclaredTools("target", f) \o DeclaredTools("test", f)
                                    \o DeclaredTools("turn", f)
        /\ \A f \in {"must_match", "must_not_match"} :
              EffectiveText(f) = DeclaredText("target", f) \o DeclaredText("test", f)
                                   \o DeclaredText("turn", f)
        /\ \A name \in ToolNames :
              Len(assertForbiddenTools(OneCallOf(name), EffectiveTools("forbid")))
                = Occurrences(DeclaredTools("target", "forbid")
                                \o DeclaredTools("test", "forbid")
                                \o DeclaredTools("turn", "forbid"), name)

\* the scopes that declare a non-empty block
DeclaringScopes ==
    { sc \in {"target", "test", "turn"} : Has(call[sc]) /\ call[sc] # EmptyBlock }

\* C19: a block declared at exactly one of the three scopes (the two others
\* absent or empty) yields the same effective block whichever scope it is
\* declared at, carrying exactly the declared constraints.
C19_SingleScopeBlockKept ==
    (pc = "merged" /\ Cardinality(DeclaringScopes) = 1) =>
        LET sc == CHOOSE x \in DeclaringScopes : TRUE
            b == call[sc]
        IN  /\ Get(ret) = mergeAssertBlocks(b, None, None)
            /\ Get(ret) = mergeAssertBlocks(None, b, None)
            /\ Get(ret) = mergeAssertBlocks(None, None, b)
            /\ \A f \in {"max_duration_ms", "max_idle_ms"} :
                  Get(ret).timing[f] = DeclaredTiming(sc, f)
            /\ \A f \in {"forbid", "require", "forbid_calls"} :
                  EffectiveTools(f) = DeclaredTools(sc, f)
            /\ \A f \in {"must_match", "must_not_match"} :
                  EffectiveText(f) = DeclaredText(sc, f)

----------------------------------------------------------------------------
(* Properties of assertTiming (specification SpecTiming) *)

IdleFailures == SelectSeq(Get(ret), LAMBDA r : r.assertion = "Idle constraint")

\* the positions of the computed gaps that strictly exceed the idle bound
ExceedingGaps ==
    LET gaps == computeIdleGaps(call.context)
    IN  { k \in 1..Len(gaps) : gaps[k].duration > Get(call.constraints.max_idle_ms) }

\* the j-th of them
NthExceedingGap(j) ==
    CHOOSE k \in ExceedingGaps : Cardinality({q \in ExceedingGaps : q < k}) = j - 1

\* C20: assertTiming produces no idle failure when max_idle_ms is unset or
\* false, regardless of gap sizes; otherwise it produces exactly one idle
\* failure for each computed gap whose duration strictly exceeds the bound,
\* whatever the other gaps, the total duration and max_duration_ms are.
C20_IdleFailurePerExceedingGap ==
    pc = "checked" =>
        IF ~Has(call.constraints.max_idle_ms)
              \/ call.constraints.max_idle_ms = Some(Disabled)
        THEN IdleFailures = <<>>
        ELSE /\ Len(IdleFailures) = Cardinality(ExceedingGaps)
             /\ \A j \in 1..Len(IdleFailures) :
                   LET gap == computeIdleGaps(call.context)[NthExceedingGap(j)]
                   IN  /\ IdleFailures[j].subject = gap.from
                       /\ IdleFailures[j].other = gap.to
                       /\ IdleFailures[j].actual = gap.duration
                       /\ IdleFailures[j].expected = Get(call.constraints.max_idle_ms)

C20_Witness_TwoGapsDurationFine ==
    /\ pc = "checked"
    /\ call.context = TimingContext(0, 2, <<TimedCall("a", 1)>>)
    /\ call.constraints = TimingAssert(Some(2), Some(0))
    /\ Len(Get(ret)) = 2
    /\ Get(ret)[1].subject = "start" /\ Get(ret)[1].other = "a"
    /\ Get(ret)[2].subject = "a" /\ Get(ret)[2].other = "end"

DurationFailures == SelectSeq(Get(ret), LAMBDA r : r.assertion = "Duration constraint")

\* C21: assertTiming produces no duration failure when max_duration_ms is
\* unset or false, and otherwise exactly one duration failure iff endTs -
\* startTs is strictly greater than the bound (equality passes); a numeric
\* bound of 0 is enforced and not treated as unset.
C21_DurationFailureIffExceeded ==
    pc = "checked" =>
        LET bound == call.constraints.max_duration_ms
            duration == call.context.endTs - call.context.startTs
        IN  IF ~Has(bound) \/ bound = Some(Disabled)
            THEN DurationFailures = <<>>
            ELSE IF duration > Get(bound)
                 THEN /\ Len(DurationFailures) = 1
                      /\ DurationFailures[1].expected = Get(bound)
                      /\ DurationFailures[1].actual = duration
                 ELSE DurationFailures = <<>>

C21_Witness_ZeroBoundEnforced ==
    /\ pc = "checked"
    /\ call.context = TimingContext(1, 2, <<>>)
    /\ call.constraints = TimingAssert(Some(0), None)
    /\ Len(Get(ret)) = 1
    /\ Get(ret)[1].assertion = "Duration constraint"
    /\ Get(ret)[1].expected = 0 /\ Get(ret)[1].actual = 1

\* the orders of the N calls of the context in which timestamps never decrease
AscendingOrders ==
    LET calls == call.context.toolCalls
        n == Len(calls)
    IN  { p \in [1..n -> 1..n] :
            /\ \A x, y \in 1..n : x # y => p[x] # p[y]
            /\ \A x \in 1..(n - 1) : calls[p[x]].timestamp <= calls[p[x + 1]].timestamp }

\* C22: the idle-gap list has a fixed shape: for zero tool calls it is the
\* single gap "start" to "end" of duration endTs - startTs (so with
\* max_idle_ms = D there is exactly one idle failure iff endTs - startTs > D);
\* for N >= 1 calls, given in any order and with any timestamps including equal
\* ones, it has exactly N+1 entries: start to first call, one per consecutive
\* pair in ascending timestamp order, last call to end.
C22_IdleGapListShape ==
    LET ctx == call.context
        calls == ctx.toolCalls
        n == Len(calls)
    IN  /\ (pc = "gaps" /\ n = 0) =>
              Get(ret) = << IdleGap("start", "end", ctx.endTs - ctx.startTs) >>
        /\ (pc = "checked" /\ n = 0 /\ Enforced(call.constraints.max_idle_ms)) =>
              /\ Len(IdleFailures) =
                    (IF ctx.endTs - ctx.startTs > Get(call.constraints.max_idle_ms)
                     THEN 1 ELSE 0)
              /\ \A j \in 1..Len(IdleFailures) :
                    IdleFailures[j].subject = "start" /\ IdleFailures[j].other = "end"
        /\ (pc = "gaps" /\ n >= 1) =>
              /\ Len(Get(ret)) = n + 1
              /\ \E p \in AscendingOrders :
                    /\ Get(ret)[1] = IdleGap("start", calls[p[1]].name,
                                             calls[p[1]].timestamp - ctx.startTs)
                    /\ \A k \in 1..(n - 1) :
                          Get(ret)[k + 1] =
                              IdleGap(calls[p[k]].name, calls[p[k + 1]].name,
                                      calls[p[k + 1]].timestamp - calls[p[k]].timestamp)
                    /\ Get(ret)[n + 1] = IdleGap(calls[p[n]].name, "end",
                                                 ctx.endTs - calls[p[n]].timestamp)

C22_Witness_UnorderedCalls ==
    /\ pc = "gaps"
    /\ call.context = TimingContext(0, 2, <<TimedCall("a", 2), TimedCall("b", 1)>>)
    /\ Get(ret) = << IdleGap("start", "b", 1), IdleGap("b", "a", 1), IdleGap("a", "end", 0) >>

----------------------------------------------------------------------------
(* Properties of reconstruction followed by assertTiming (SpecWindow) *)

\* the events [start("s") at 100, result("s") at 150] were reconstructed and
\* max_idle_ms = 60 was evaluated over the window {0, 200}
StartResultScenario ==
    /\ pc = "checked"
    /\ events = << Event("TOOL_CALL_START", "t1", "s", <<>>, 100),
                   Event("TOOL_CALL_RESULT", "t1", "", <<"x">>, 150) >>
    /\ call.context.startTs = 0 /\ call.context.endTs = 200
    /\ call.constraints.max_idle_ms = Some(60)

\* C23 (as stated): the scenario yields exactly one idle failure, for the gap
\* "start" to "s", whose reported duration is 100 ms.
C23_GapReportedAs100 ==
    StartResultScenario =>
        Get(ret) = << Failure("Idle constraint", "start", "s", 60, 100) >>

\* C23 (amended): the scenario yields exactly one idle failure, for the gap
\* "start" to "s", whose reported duration is 150 ms, the call being stamped
\* with the arrival of its result; the gap "s" to "end" is 50 ms and yields no
\* failure.
C23_GapReportedAs150 ==
    StartResultScenario =>
        /\ Get(ret) = << Failure("Idle constraint", "start", "s", 60, 150) >>
        /\ computeIdleGaps(call.context)
             = << IdleGap("start", "s", 150), IdleGap("s", "end", 50) >>

C23_Witness_ScenarioEvaluated ==
    /\ StartResultScenario
    /\ Len(call.context.toolCalls) = 1
    /\ call.context.toolCalls[1].name = "s"
    /\ call.context.toolCalls[1].timestamp = 150
    /\ Len(Get(ret)) = 1

----------------------------------------------------------------------------
(* Properties of the tool evaluators (specification SpecTools) *)

RequireChecked == pc = "checked" /\ call.fn = "assertRequiredTools"

Occurs(calls, name) == \E k \in 1..Len(calls) : calls[k].name = name

\* the position of the first call of name
FirstOccurrence(calls, name) ==
    CHOOSE k \in 1..Len(calls) :
        calls[k].name = name /\ \A j \in 1..(k - 1) : calls[j].name # name

\* the value at the dot path of an args_match entry, and whether it carries
\* the entry's pattern
PatternFound(pattern, text) ==
    \E lo \in 1..(Len(text) + 1) : \E hi \in (lo - 1)..Len(text) :
        SubSeq(text, lo, hi) = pattern

SatisfiesArgs(tc, argsMatch) ==
    \A k \in 1..Len(argsMatch) :
        LET key == argsMatch[k][1][1]
        IN  /\ key \in DOMAIN tc.args.fields
            /\ PatternFound(argsMatch[k][2], tc.args.fields[key].text)

\* the calls a require entry selects: those of its name that satisfy every
\* args_match pattern, match result_match and do not match result_not_match
Selected(calls, req) ==
    SelectSeq(calls, LAMBDA tc :
        /\ tc.name = req.name
        /\ Has(req.args_match) => SatisfiesArgs(tc, Get(req.args_match))
        /\ Has(req.result_match) => PatternFound(Get(req.result_match), tc.result.text)
        /\ Has(req.result_not_match) =>
              ~PatternFound(Get(req.result_not_match), tc.result.text))

\* C24: for a RequireTool whose name matches no call in the list,
\* assertRequiredTools emits exactly one failure ('0 calls') for that entry
\* whatever its count, args_match, result_match, result_not_match and after
\* settings; no separate ordering failure is emitted even when the after
\* predecessor is absent too.
C24_AbsentToolOneFailure ==
    (RequireChecked /\ ~Occurs(call.calls, call.arg.name)) =>
        Get(ret) = << Failure("Tool must be called", call.arg.name, "", 1, 0) >>

C24_Witness_AbsentWithAbsentPredecessor ==
    /\ RequireChecked
    /\ Len(call.calls) = 1 /\ call.calls[1].name = "b"
    /\ call.arg = RequireToolWith("a", Some(CountConstraint(None, Some(2), None)),
                                  Some(<< <<<<"q">>, <<"x">>>> >>), Some(<<"x">>),
                                  Some(<<"x">>), Some("c"))
    /\ Len(Get(ret)) = 1

CountFailures ==
    SelectSeq(Get(ret), LAMBDA r :
        r.assertion \in {"Tool count exactly", "Tool count at least", "Tool count at most"})

\* C25: for a RequireTool with a count constraint, the count is compared
\* against the number of name-matching calls that also satisfy args_match,
\* result_match and result_not_match, not against all name-matching calls:
\* {name, args_match: {q: "x"}, count: {exact: 1}} against two calls with
\* q = "xy" and q = "y" yields zero failures.
C25_CountOverSelectedCalls ==
    (RequireChecked /\ Has(call.arg.count) /\ Len(Selected(call.calls, call.arg)) > 0) =>
        /\ CountFailures = assertCount(call.arg.name, Len(Selected(call.calls, call.arg)),
                                       Get(call.arg.count))
        /\ (/\ call.arg = RequireToolWith("a", Some(CountConstraint(Some(1), None, None)),
                                          Some(<< <<<<"q">>, <<"x">>>> >>), None, None, None)
            /\ Len(call.calls) = 2
            /\ call.calls[1].name = "a"
            /\ call.calls[1].args = ObjectValue([q |-> StringValue(<<"x", "y">>)])
            /\ call.calls[2].name = "a"
            /\ call.calls[2].args = ObjectValue([q |-> StringValue(<<"y">>)]))
           => Get(ret) = <<>>

\* the entry carries this filter and nothing else
OnlyArgsMatch(req) ==
    /\ Has(req.args_match) /\ ~Has(req.count) /\ ~Has(req.result_match)
    /\ ~Has(req.result_not_match) /\ ~Has(req.after)

OnlyResultNotMatch(req) ==
    /\ Has(req.result_not_match) /\ ~Has(req.count) /\ ~Has(req.result_match)
    /\ ~Has(req.args_match) /\ ~Has(req.after)

\* C26: for a RequireTool with args_match and no count, the entry yields zero
\* failures iff at least one name-matching call satisfies every args_match
\* pattern; calls that do not satisfy the patterns produce no failure of their
\* own, and when no call satisfies them exactly one failure is emitted.
C26_ArgsMatchSelects ==
    (RequireChecked /\ OnlyArgsMatch(call.arg) /\ Occurs(call.calls, call.arg.name)) =>
        IF Len(Selected(call.calls, call.arg)) > 0
        THEN Get(ret) = <<>>
        ELSE Len(Get(ret)) = 1

\* C27: for a RequireTool with result_not_match, calls whose result matches
\* the pattern are excluded from the selection rather than failed one by one:
\* when some name-matching call's result does not match, the entry yields
\* zero failures; when every name-matching call's result matches, it yields
\* exactly one failure.
C27_ResultNotMatchExcludes ==
    (RequireChecked /\ OnlyResultNotMatch(call.arg) /\ Occurs(call.calls, call.arg.name)) =>
        IF Len(Selected(call.calls, call.arg)) > 0
        THEN Get(ret) = <<>>
        ELSE Len(Get(ret)) = 1

OrderingFailures ==
    SelectSeq(Get(ret), LAMBDA r :
        r.assertion \in {"Tool must be called after: not called",
                         "Tool must be called after: called before"})

\* the call list an ordering is judged on: the list itself, or at test scope
\* the lists of the turns one after the other
JudgedCalls == IF call.fn = "test_scope" THEN call.calls[1] \o call.calls[2] ELSE call.calls

\* C28: for a RequireTool with after: P whose own tool T occurs in the call
\* list, an ordering failure is emitted iff P never occurs in the unfiltered
\* call list or the first occurrence of T precedes the first occurrence of P;
\* the entry's args and result filters do not change which occurrences are
\* compared, and at test scope the comparison runs over the flattened call
\* list in turn order.
C28_OrderingOnFirstOccurrences ==
    (/\ pc = "checked"
     /\ call.fn \in {"assertRequiredTools", "test_scope"}
     /\ Has(call.arg.after)
     /\ Occurs(JudgedCalls, call.arg.name)) =>
        LET T == call.arg.name
            P == Get(call.arg.after)
        IN  /\ Len(OrderingFailures) \in {0, 1}
            /\ (Len(OrderingFailures) = 1) <=>
                  \/ ~Occurs(JudgedCalls, P)
                  \/ FirstOccurrence(JudgedCalls, T) < FirstOccurrence(JudgedCalls, P)

C28_Witness_PredecessorInLaterTurn ==
    /\ pc = "checked"
    /\ call.fn = "test_scope"
    /\ call.arg.name = "a" /\ call.arg.after = Some("b")
    /\ Has(call.arg.result_not_match)
    /\ Len(call.calls[1]) = 2 /\ call.calls[1][1].name = "a" /\ call.calls[1][2].name = "a"
    /\ Len(call.calls[2]) = 2 /\ call.calls[2][1].name = "b" /\ call.calls[2][2].name = "a"
    /\ Len(OrderingFailures) = 1
    /\ OrderingFailures[1].assertion = "Tool must be called after: called before"

\* the calls a ForbidCall entry forbids: those of its name that satisfy every
\* condition the entry gives
Forbidden(calls, forbid) ==
    SelectSeq(calls, LAMBDA tc :
        /\ tc.name = forbid.name
        /\ Has(forbid.args_match) => SatisfiesArgs(tc, Get(forbid.args_match))
        /\ Has(forbid.result_match) => PatternFound(Get(forbid.result_match), tc.result.text))

\* C29: assertForbiddenCalls emits, for each ForbidCall entry, exactly one
\* failure per call of that name that satisfies all of the entry's given
\* conditions; a call meeting only one of two given conditions is not
\* forbidden, and an entry with no condition forbids every call of that name.
C29_ForbiddenCallPerOccurrence ==
    (pc = "checked" /\ call.fn = "assertForbiddenCalls") =>
        Get(ret) = [ k \in 1..Len(Forbidden(call.calls, call.arg)) |->
                        Failure("Tool call forbidden", call.arg.name, "", 0, 0) ]

C29_Witness_OneConditionOfTwo ==
    /\ pc = "checked" /\ call.fn = "assertForbiddenCalls"
    /\ call.arg = ForbidCallWith("a", Some(<< <<<<"q">>, <<"x">>>> >>), Some(<<"x">>))
    /\ call.calls = << CheckedCall("a", ObjectValue([q |-> StringValue(<<"x", "y">>)]),
                                   StringValue(<<"y">>)),
                       CheckedCall("a", ObjectValue([q |-> StringValue(<<"x", "y">>)]),
                                   StringValue(<<"x">>)) >>
    /\ Len(Get(ret)) = 1

\* C30: assertForbiddenTools returns exactly one failure for each entry of the
\* forbid list whose name occurs at least once in the call list, independently
\* of how many times that tool was called, and no failure for an entry whose
\* name never occurs.
C30_ForbiddenToolPerEntry ==
    (pc = "checked" /\ call.fn = "assertForbiddenTools") =>
        LET hit == SelectSeq(call.arg, LAMBDA name : Occurs(call.calls, name))
        IN  Get(ret) = [ k \in 1..Len(hit) |->
                            Failure("Tool must not be called", hit[k], "", 0, 0) ]

C30_Witness_CalledTwiceOneFailure ==
    /\ pc = "checked" /\ call.fn = "assertForbiddenTools"
    /\ call.arg = <<"a", "b">>
    /\ Len(call.calls) = 2 /\ call.calls[1].name = "a" /\ call.calls[2].name = "a"
    /\ Len(Get(ret)) = 1 /\ Get(ret)[1].subject = "a"

----------------------------------------------------------------------------
(* The lookup model: one dot-path lookup, or one require / forbid_calls     *)
(* check with a one-entry args_match, over one call.                        *)

MaxPathLen == 2        \* parts of a dot path in the lookup model

\* the runner and the reconstructor are idle in the models of one function
IdleRunner ==
    /\ config = [target |-> None, test |-> None, turns |-> <<None>>, hooks |-> 0]
    /\ now = 0
    /\ startTs = 0
    /\ i = 0
    /\ turns = <<>>
    /\ failures = <<>>
    /\ result = None
    /\ toolCalls = <<>>
    /\ pendingToolCalls = EmptyMap
    /\ assistantText = <<>>
    /\ turnStartTs = None
    /\ turnEndTs = None
    /\ turnData = None
    /\ thrown = None
    /\ consumed = 0
    /\ lastEvent = None
    /\ events = <<>>
    /\ log = <<>>

NullValue == JsValue("null", <<"n", "u", "l", "l">>)

LookupArgs ==
    { EmptyObject,
      ObjectValue([u |-> StringValue(<<"x">>)]),
      ObjectValue([u |-> NullValue]),
      ObjectValue([u |-> ObjectValue([n |-> StringValue(<<"x">>)])]),
      ObjectValue([u |-> ObjectValue([n |-> NullValue])]) }

PathParts == {"u", "n", "toString"}

Paths == UNION { [1..n -> PathParts] : n \in 1..MaxPathLen }

LookupPatterns == { <<"x">>, UndefinedText }

LookupCalls ==
    [ fn : {"getNestedValue", "assertRequiredTools", "assertForbiddenCalls"},
      args : LookupArgs, path : Paths, pattern : LookupPatterns ]

InitLookup ==
    /\ IdleRunner
    /\ pc = "lookup"
    /\ call \in LookupCalls
    /\ ret = None

Returned_Lookup(value) ==
    /\ pc = "lookup"
    /\ ret' = Some(value)
    /\ pc' = "looked"
    /\ UNCHANGED <<call, runVars, now, streamVars, turnData, thrown, consumed, lastEvent,
                   events>>

Lookup ==
    /\ call.fn = "getNestedValue"
    /\ Returned_Lookup(getNestedValue(call.args, call.path))

LookupRequire ==
    /\ call.fn = "assertRequiredTools"
    /\ Returned_Lookup(assertRequiredTools(
           << CheckedCall("a", call.args, StringValue(<<"x">>)) >>,
           << RequireToolWith("a", None, Some(<< <<call.path, call.pattern>> >>),
                              None, None, None) >>))

LookupForbid ==
    /\ call.fn = "assertForbiddenCalls"
    /\ Returned_Lookup(assertForbiddenCalls(
           << CheckedCall("a", call.args, StringValue(<<"x">>)) >>,
           << ForbidCallWith("a", Some(<< <<call.path, call.pattern>> >>), None) >>))

NextLookup == Lookup \/ LookupRequire \/ LookupForbid

SpecLookup == InitLookup /\ [][NextLookup]_vars

----------------------------------------------------------------------------
(* Properties of the dot-path lookup (specification SpecLookup) *)

\* a segment of the path is absent from the arguments, or the value it is
\* looked up in is null or not an object
RECURSIVE MissingAt(_, _)
MissingAt(obj, path) ==
    /\ path # <<>>
    /\ \/ obj.type # "object"
       \/ Head(path) \notin DOMAIN obj.fields
       \/ MissingAt(obj.fields[Head(path)], Tail(path))

\* C31: dot-path argument lookup yields 'missing' whenever any path segment
\* is absent or any intermediate value is null or not an object; a missing
\* value never matches any pattern (the pattern "undefined" included), so in
\* require the call is not counted as matching (the entry fails) and in
\* forbid_calls the call is not forbidden.
C31_MissingNeverMatches ==
    (pc = "looked" /\ MissingAt(call.args, call.path)) =>
        /\ call.fn = "getNestedValue" => Get(ret) = None
        /\ call.fn = "assertRequiredTools" => Len(Get(ret)) = 1
        /\ call.fn = "assertForbiddenCalls" => Get(ret) = <<>>

----------------------------------------------------------------------------
(* The text model: one assertText call *)

MaxTextLen == 2        \* characters of the text in the text model
MaxPatterns == 2       \* patterns of a must_match / must_not_match list

TextChars == {"e", "f"}

Texts == UNION { [1..n -> TextChars] : n \in 0..MaxTextLen }

TextPatterns == { <<>>, <<"e">>, <<"f">> }

\* must_match?: string | string[]
ConstraintValues ==
    {None}
    \cup { Some(Pattern(p)) : p \in TextPatterns }
    \cup { Some(PatternList(l)) : l \in UNION { [1..n -> TextPatterns] : n \in 0..MaxPatterns } }

TextCalls ==
    [ text : Texts,
      constraints : { TextAssert(m, n) : m \in ConstraintValues, n \in ConstraintValues } ]

InitText ==
    /\ IdleRunner
    /\ pc = "text"
    /\ call \in TextCalls
    /\ ret = None

CheckText ==
    /\ pc = "text"
    /\ ret' = Some(assertText(call.text, call.constraints))
    /\ pc' = "checked"
    /\ UNCHANGED <<call, runVars, now, streamVars, turnData, thrown, consumed, lastEvent,
                   events>>

SpecText == InitText /\ [][CheckText]_vars

----------------------------------------------------------------------------
(* Properties of assertText (specification SpecText) *)

\* absent, a single pattern or a list, as the list of its patterns
AsList(value) == IF Has(value) THEN Get(value).patterns ELSE <<>>

\* C32: assertText normalizes must_match and must_not_match (absent, single
\* pattern, or list) to lists and returns exactly one failure per must_match
\* pattern that does not match the text plus one per must_not_match pattern
\* that does match it: a text holding "e" and no "f" with must_not_match
\* ["e", "f"] gives exactly one failure, and with ["f"] gives none.
C32_OneFailurePerOffendingPattern ==
    pc = "checked" =>
        LET mustMatch == AsList(call.constraints.must_match)
            mustNotMatch == AsList(call.constraints.must_not_match)
            unmatched == SelectSeq(mustMatch, LAMBDA p : ~PatternFound(p, call.text))
            matched == SelectSeq(mustNotMatch, LAMBDA p : PatternFound(p, call.text))
        IN  Get(ret) =
                [ k \in 1..Len(unmatched) |->
                    FailureWith("Text must match", "", "", unmatched[k], 0, 0) ]
                \o
                [ k \in 1..Len(matched) |->
                    FailureWith("Text must not match", "", "", matched[k], 0, 0) ]

----------------------------------------------------------------------------
(* The raise model: one tool check, or one turn-level or test-level        *)
(* evaluation of a require entry by runTest, with patterns that are and    *)
(* patterns that are not regular expressions.                              *)

RaiseCalls ==
    { CheckedCall(n, a, StringValue(<<"x">>)) :
        n \in ToolNames, a \in {EmptyObject, ObjectValue([q |-> StringValue(<<"x", "y">>)])} }

RaiseCallLists == UNION { [1..n -> RaiseCalls] : n \in 0..MaxToolCalls }

RaiseArgsMatches == { None, Some(<< <<<<"q">>, <<"x">>>> >>), Some(<< <<<<"q">>, <<"(">>>> >>) }

RaiseRequireEntries ==
    { RequireToolWith("a", None, am, rm, rnm, None) :
        am \in RaiseArgsMatches,
        rm \in {None, Some(<<"x">>), Some(<<"(">>)},
        rnm \in {None, Some(<<"(">>)} }

RaiseForbidEntries ==
    { ForbidCallWith("a", am, rm) :
        am \in RaiseArgsMatches, rm \in {None, Some(<<"x">>), Some(<<"(">>)} }

IsRaiseCall(c) ==
    \/ \E calls \in RaiseCallLists, req \in RaiseRequireEntries,
          fn \in {"assertRequiredTools", "turn_scope", "test_scope"} :
          c = ToolsCall(fn, calls, req)
    \/ \E calls \in RaiseCallLists, forbid \in RaiseForbidEntries :
          c = ToolsCall("assertForbiddenCalls", calls, forbid)
    \/ \E calls \in RaiseCallLists, forbidden \in ForbidLists :
          c = ToolsCall("assertForbiddenTools", calls, forbidden)

InitRaise ==
    /\ IdleRunner
    /\ pc = "tools"
    /\ IsRaiseCall(call)
    /\ ret = None

\* the call ends: it returns its results, or the SyntaxError of new RegExp
\* leaves it and ends where the caller lets it (pc = raisedAs)
Ended(throws, results, raisedAs) ==
    /\ pc = "tools"
    /\ IF throws
       THEN pc' = raisedAs /\ thrown' = Some("SyntaxError") /\ ret' = None
       ELSE pc' = "checked" /\ thrown' = None /\ ret' = Some(results)
    /\ UNCHANGED <<call, runVars, now, streamVars, turnData, consumed, lastEvent, events>>

RaiseRequiredTools ==
    /\ call.fn = "assertRequiredTools"
    /\ Ended(assertRequiredToolsThrows(call.calls, <<call.arg>>),
             assertRequiredTools(call.calls, <<call.arg>>), "raised")

RaiseForbiddenCalls ==
    /\ call.fn = "assertForbiddenCalls"
    /\ Ended(assertForbiddenCallsThrows(call.calls, <<call.arg>>),
             assertForbiddenCalls(call.calls, <<call.arg>>), "raised")

RaiseForbiddenTools ==
    /\ call.fn = "assertForbiddenTools"
    /\ Ended(assertForbiddenToolsThrows(call.calls, call.arg),
             assertForbiddenTools(call.calls, call.arg), "raised")

\* the block runTest merges for a test file whose assert block requires arg
RequireBlock(req) ==
    mergeAssertBlocks(None,
                      AssertBlock(Some(ToolsAssert(None, Some(<<req>>), None)), None, None),
                      None)

\* test.ts:183-222: the turn-level evaluation runs inside the try of the turn
\* loop, whose catch returns the execution failure `Turn N failed`
RaiseTurnScope ==
    /\ call.fn = "turn_scope"
    /\ Ended(assertRequiredToolsThrows(call.calls, Get(RequireBlock(call.arg).tools.require)),
             evaluateTurnAssertions(TurnRecord(0, call.calls, <<>>, Some(0), Some(0), 0),
                                    RequireBlock(call.arg)).results,
             "execution failure")

\* test.ts:226-250: the test-level evaluation runs after the loop, outside
\* any try, so the promise of runTest rejects
RaiseTestScope ==
    /\ call.fn = "test_scope"
    /\ Ended(assertRequiredToolsThrows(call.calls, Get(RequireBlock(call.arg).tools.require)),
             evaluateTestAssertions(
                 buildTestData(<<TurnRecord(0, call.calls, <<>>, Some(0), Some(0), 0)>>, 0, 0),
                 RequireBlock(call.arg)).results,
             "rejected")

NextRaise ==
    \/ RaiseRequiredTools
    \/ RaiseForbiddenCalls
    \/ RaiseForbiddenTools
    \/ RaiseTurnScope
    \/ RaiseTestScope

SpecRaise == InitRaise /\ [][NextRaise]_vars

----------------------------------------------------------------------------
(* Properties of the raise model (specification SpecRaise) *)

\* C33: each tool-assertion check (forbidden tools, required tools, forbidden
\* calls) returns a list of zero or more failures for every call list and
\* every schema-valid assertion entry, and never raises: evaluating an assert
\* block never turns a turn into an execution failure nor makes runTest
\* reject.
C33_ToolChecksNeverRaise ==
    /\ pc \notin {"raised", "execution failure", "rejected"}
    /\ thrown = None
    /\ pc = "checked" => Has(ret)

----------------------------------------------------------------------------
(* The pattern model: one value checked against one pattern through one of *)
(* the five pattern fields.                                                *)

MaxValueLen == 2       \* letters of a value in the pattern model

MatchedValues ==
    UNION { [1..n -> {"x", "X"}] : n \in 0..MaxValueLen }
    \cup { <<"/", "x", "/", "i">>, <<"/", "x", "/">>, <<"/", "x">>, <<"/", "x", "/", "z">> }

MatchPatterns ==
    { <<"x">>, <<"X">>, <<"/", "x", "/", "i">>, <<"/", "X", "/", "g", "i">>,
      <<"/", "x", "/">>, <<"/", "x">>, <<"/", "x", "/", "z">> }

PatternFields == {"must_match", "must_not_match", "args_match", "result_match", "result_not_match"}

MatchCalls == [ field : PatternFields, value : MatchedValues, pattern : MatchPatterns ]

InitPattern ==
    /\ IdleRunner
    /\ pc = "pattern"
    /\ call \in MatchCalls
    /\ ret = None

Returned_Pattern(results) ==
    /\ pc = "pattern"
    /\ ret' = Some(results)
    /\ pc' = "checked"
    /\ UNCHANGED <<call, runVars, now, streamVars, turnData, thrown, consumed, lastEvent,
                   events>>

MatchText ==
    /\ call.field \in {"must_match", "must_not_match"}
    /\ Returned_Pattern(assertText(call.value,
           IF call.field = "must_match"
           THEN TextAssert(Some(Pattern(call.pattern)), None)
           ELSE TextAssert(None, Some(Pattern(call.pattern)))))

MatchArgs ==
    /\ call.field = "args_match"
    /\ Returned_Pattern(assertRequiredTools(
           << CheckedCall("a", ObjectValue([q |-> StringValue(call.value)]),
                          StringValue(<<>>)) >>,
           << RequireToolWith("a", None, Some(<< <<<<"q">>, call.pattern>> >>),
                              None, None, None) >>))

MatchResult ==
    /\ call.field \in {"result_match", "result_not_match"}
    /\ Returned_Pattern(assertRequiredTools(
           << CheckedCall("a", EmptyObject, StringValue(call.value)) >>,
           << IF call.field = "result_match"
              THEN RequireToolWith("a", None, None, Some(call.pattern), None, None)
              ELSE RequireToolWith("a", None, None, None, Some(call.pattern), None) >>))

NextPattern == MatchText \/ MatchArgs \/ MatchResult

SpecPattern == InitPattern /\ [][NextPattern]_vars

----------------------------------------------------------------------------
(* Properties of the pattern fields (specification SpecPattern) *)

\* C34: every pattern field (args_match, result_match, result_not_match,
\* must_match, must_not_match) is interpreted by the same matcher: a pattern
\* of the form /body/flags with flags drawn from {g,i,m,s,u,y} is matched as
\* the regex body with those flags and any other pattern as a flag-less
\* regex; so args_match {q: "/x/i"} selects a call whose q argument is "X".
C34_OneMatcherForEveryField ==
    pc = "checked" =>
        IF call.field \in {"must_match", "args_match", "result_match"}
        THEN (Get(ret) = <<>>) <=> matchesPattern(call.value, call.pattern)
        ELSE (Get(ret) # <<>>) <=> matchesPattern(call.value, call.pattern)

----------------------------------------------------------------------------
(* Properties of the returned TestRecord (specification Spec) *)

\* the tool lists of the records one after the other
RECURSIVE Flattened(_)
Flattened(records) ==
    IF records = <<>> THEN <<>> ELSE Head(records).toolCalls \o Flattened(Tail(records))

----------------------------------------------------------------------------
(* The replay model: runTest over a test of one turn in record mode, then  *)
(* runTest over the same test in replay mode.  events is the turn file;    *)
(* call holds what the recorded run ended with, ret what the replay ended  *)
(* with.                                                                   *)

MaxRecorded == 3       \* events of the recorded turn
MaxDelay == 2          \* the replay starts 1..MaxDelay after the recorded run ended

\* JSON.stringify(event) + "\n", a line of the turn file, and JSON.parse(line)
EventLine(event) ==
    <<event.type, event.toolCallId, event.toolCallName, event.text, event.messageId, event.ts>>

ParseLine(line) ==
    [type |-> line[1], toolCallId |-> line[2], toolCallName |-> line[3], text |-> line[4],
     messageId |-> line[5], ts |-> line[6]]

\* the line terminator appendFile writes after each event
Newline == <<"\n">>

\* appendFile(filePath, JSON.stringify(event) + "\n")
AppendLine(file, event) == file \o <<EventLine(event), Newline>>

ReplayedLines_DropsLast(file) ==
    LET lines == SelectSeq(file, LAMBDA t : t # Newline)
    IN  SubSeq(lines, 1, Len(lines) - 1)

\* content.trim().split('\n') and `if (line)`: the lines the replay yields
ReplayedLines(file) == SelectSeq(file, LAMBDA t : t # Newline)

SourceEvents(ts) ==
    { Event("TOOL_CALL_START", "t1", "a", <<>>, ts),
      Event("TOOL_CALL_RESULT", "t1", "", <<"x">>, ts),
      TextMessageContent("m1", <<"x">>, ts),
      Event("RUN_ERROR", "", "", <<>>, ts) }

Recording == ~Has(call)

\* what a run ended with: the TurnRecord of its turn (none when the turn
\* failed), the execution failure, and the TestRecord built at the end
RunOutcome(turn, error, testData) == [turn |-> turn, error |-> error, testData |-> testData]

InitReplay ==
    /\ config = [target |-> None, test |-> None, turns |-> <<None>>, hooks |-> 0]
    /\ pc = "streaming"
    /\ now = 0
    /\ startTs = 0
    /\ i = 0
    /\ turns = <<>>
    /\ failures = <<>>
    /\ result = None
    /\ toolCalls = <<>>
    /\ pendingToolCalls = EmptyMap
    /\ assistantText = <<>>
    /\ turnStartTs = None
    /\ turnEndTs = None
    /\ turnData = None
    /\ thrown = None
    /\ consumed = 0
    /\ lastEvent = None
    /\ events = <<>>
    /\ log = <<>>
    /\ call = None
    /\ ret = None

\* recordEvents: the next event of the live source is appended to the turn
\* file, then yielded to collectTurnData
RecordEvent ==
    /\ Recording
    /\ consumed < MaxRecorded
    /\ \E d \in 0..MaxTick :
         /\ now' = now + d
         /\ \E e \in SourceEvents(now + d) :
              /\ events' = AppendLine(events, e)
              /\ handleEvent(e)
    /\ UNCHANGED <<call, ret, runVars>>

\* the outcome of the run whose turn ended (test.ts:175, 226-257) or failed
\* (test.ts:214-222)
OutcomeAt(clock) ==
    IF pc = "threw"
    THEN RunOutcome(None, thrown, buildTestData(<<>>, startTs, clock))
    ELSE LET data == TurnRecord(i, toolCalls, assistantText, turnStartTs, turnEndTs, clock)
         IN  RunOutcome(Some(data), None, buildTestData(<<data>>, startTs, clock))

\* the recorded run ends, and later runTest starts again in replay mode
\* (test.ts:59 startTs = Date.now())
RecordedRunEnds ==
    /\ Recording
    /\ pc \in {"streaming", "threw"}
    /\ call' = Some(OutcomeAt(now))
    /\ \E d \in 1..MaxDelay :
         /\ now' = now + d
         /\ startTs' = now + d
    /\ pc' = "streaming"
    /\ toolCalls' = <<>>
    /\ pendingToolCalls' = EmptyMap
    /\ assistantText' = <<>>
    /\ turnStartTs' = None
    /\ turnEndTs' = None
    /\ thrown' = None
    /\ consumed' = 0
    /\ lastEvent' = None
    /\ UNCHANGED <<ret, config, i, turns, failures, result, log, turnData, events>>

\* replayEvents yields the next line of the turn file
ReplayEvent ==
    /\ ~Recording
    /\ consumed < Len(ReplayedLines(events))
    /\ handleEvent(ParseLine(ReplayedLines(events)[consumed + 1]))
    /\ UNCHANGED <<call, ret, runVars, now, events>>

\* the replayed run ends
ReplayedRunEnds ==
    /\ ~Recording
    /\ \/ pc = "threw"
       \/ pc = "streaming" /\ consumed = Len(ReplayedLines(events))
    /\ ret' = Some(OutcomeAt(now))
    /\ pc' = "replayed"
    /\ UNCHANGED <<call, runVars, now, streamVars, turnData, thrown, consumed, lastEvent,
                   events>>

NextReplay == RecordEvent \/ RecordedRunEnds \/ ReplayEvent \/ ReplayedRunEnds

SpecReplay == InitReplay /\ [][NextReplay]_vars

----------------------------------------------------------------------------
(* Properties of recorded and replayed runs (specification SpecReplay) *)

\* startTs <= every flattened ToolCall timestamp <= endTs
WindowHoldsCalls(testData) ==
    \A k \in 1..Len(testData.allToolCalls) :
        /\ testData.startTs <= testData.allToolCalls[k].timestamp
        /\ testData.allToolCalls[k].timestamp <= testData.endTs

NoNegativeGap(testData) ==
    LET gaps == computeIdleGaps([startTs |-> testData.startTs, endTs |-> testData.endTs,
                                 toolCalls |-> testData.allToolCalls])
    IN  \A k \in 1..Len(gaps) : gaps[k].duration >= 0

\* C36: in the TestRecord passed to the test-level timing check, startTs <=
\* every flattened ToolCall timestamp <= endTs, so every test-level idle gap
\* is non-negative; this holds for live runs and for runs replayed from a
\* recording alike.
C36_TestWindowHoldsCalls ==
    /\ Has(call) => WindowHoldsCalls(Get(call).testData) /\ NoNegativeGap(Get(call).testData)
    /\ Has(ret) => WindowHoldsCalls(Get(ret).testData) /\ NoNegativeGap(Get(ret).testData)

\* the event the reconstructor handled last is the one the turn file holds at
\* that position, in the recorded run and in the replay
DeliveredAsRecorded ==
    Has(lastEvent) =>
        /\ consumed <= Len(ReplayedLines(events))
        /\ EventLine(Get(lastEvent)) = ReplayedLines(events)[consumed]
        /\ Recording => consumed = Len(ReplayedLines(events))

ReplayMatchesRecording ==
    pc = "replayed" =>
        /\ Get(ret).error = Get(call).error
        /\ Has(Get(ret).turn) <=> Has(Get(call).turn)
        /\ Has(Get(ret).turn) =>
              LET replayed == Get(Get(ret).turn)
                  recorded == Get(Get(call).turn)
              IN  /\ replayed.toolCalls = recorded.toolCalls
                  /\ replayed.assistantText = recorded.assistantText
                  /\ replayed.turnIndex = recorded.turnIndex
                  /\ IF events # <<>>
                     THEN /\ replayed.startTs = recorded.startTs
                          /\ replayed.endTs = recorded.endTs
                     ELSE /\ replayed.startTs = now /\ replayed.endTs = now
                          /\ recorded.startTs < now

----------------------------------------------------------------------------
(* Further properties of collectTurnData (specification SpecTurn) *)

NonDecreasingArrival ==
    \A p \in 1..(Len(events) - 1) : events[p].ts <= events[p + 1].ts

\* C37: if the event timestamps of a turn are non-decreasing in arrival
\* order, then in the resulting TurnRecord startTs <= every ToolCall timestamp
\* <= endTs and the ToolCall timestamps are non-decreasing in list order, so
\* every turn-level idle gap is >= 0.
C37_MonotoneEventsOrderedRecord ==
    (pc = "collected" /\ NonDecreasingArrival) =>
        LET record == Get(turnData)
            calls == record.toolCalls
            gaps == computeIdleGaps([startTs |-> record.startTs, endTs |-> record.endTs,
                                     toolCalls |-> calls])
        IN  /\ \A k \in 1..Len(calls) :
                  record.startTs <= calls[k].timestamp /\ calls[k].timestamp <= record.endTs
            /\ \A k \in 1..(Len(calls) - 1) : calls[k].timestamp <= calls[k + 1].timestamp
            /\ \A k \in 1..Len(gaps) : gaps[k].duration >= 0

C37_Witness_TwoCallsInOrder ==
    /\ pc = "collected"
    /\ NonDecreasingArrival
    /\ Len(events) = 4
    /\ events[1].ts = 0 /\ events[4].ts = 1
    /\ Len(Get(turnData).toolCalls) = 2
    /\ Get(turnData).toolCalls[1].timestamp = 0
    /\ Get(turnData).toolCalls[2].timestamp = 1

StartEvents == { p \in 1..Len(events) : events[p].type = "TOOL_CALL_START" }
ResultEvents == { p \in 1..Len(events) : events[p].type = "TOOL_CALL_RESULT" }

\* C38: each tool-call-start event yields at most one ToolCall: a second
\* result for an already finalized id is ignored, and a second start for an id
\* that is still pending replaces the pending entry, discarding the earlier
\* name and argument buffer; hence after any event sequence the number of
\* ToolCalls exceeds neither the number of start events nor the number of
\* result events.
C38_AtMostOneCallPerStart ==
    /\ Len(toolCalls) = Cardinality({ MatchingStart(r) : r \in Finalizing })
    /\ Len(toolCalls) <= Cardinality(StartEvents)
    /\ Len(toolCalls) <= Cardinality(ResultEvents)
    /\ \A id \in DOMAIN pendingToolCalls :
          /\ pendingToolCalls[id].name = events[LastStart(id)].toolCallName
          /\ pendingToolCalls[id].argsBuffer = BufferBetween(id, LastStart(id), Len(events))

C38_Witness_RestartedThenTwoResults ==
    /\ Len(events) = 4
    /\ IsStartOf(1, "t1") /\ events[1].toolCallName = "a"
    /\ IsStartOf(2, "t1") /\ events[2].toolCallName = "b"
    /\ IsResultOf(3, "t1") /\ IsResultOf(4, "t1")
    /\ Len(toolCalls) = 1
    /\ toolCalls[1].name = "b"

----------------------------------------------------------------------------
(* A further property of computeIdleGaps (specification SpecTiming) *)

RECURSIVE SumOfDurations(_)
SumOfDurations(gaps) ==
    IF gaps = <<>> THEN 0 ELSE Head(gaps).duration + SumOfDurations(Tail(gaps))

\* C39: for any window and any call list, the durations of the gaps returned
\* by computeIdleGaps sum to exactly endTs - startTs, whatever the call
\* timestamps are (also when some lie outside the window).
C39_GapsSumToWindow ==
    pc = "gaps" => SumOfDurations(Get(ret)) = call.context.endTs - call.context.startTs

C39_Witness_CallsOutsideWindow ==
    /\ pc = "gaps"
    /\ call.context.startTs = 1 /\ call.context.endTs = 1
    /\ Len(call.context.toolCalls) = 2
    /\ call.context.toolCalls[1].timestamp = 2
    /\ call.context.toolCalls[2].timestamp = 0
    /\ Len(Get(ret)) = 3
    /\ Get(ret)[1].duration = -1 /\ Get(ret)[2].duration = 2 /\ Get(ret)[3].duration = -1

====
